---- MODULE Spec2Model ----
(***************************************************************************)
(* OmniSearch Mail: the bundle download (POST /api/download/bundle) of     *)
(* server/routes.ts, modelled as a state machine.                          *)
(*                                                                         *)
(* Strings the code inspects character by character (entity names,         *)
(* subjects, dates, attachment file names, MIME types, archive paths) are  *)
(* sequences of one-character strings, so that sanitising, slicing and     *)
(* concatenation are computed as the code computes them.  Fields that are  *)
(* only passed through (messageId, from, to, cc, bodyText, attachment id)  *)
(* are plain strings.                                                      *)
(***************************************************************************)
EXTENDS Integers, Sequences, FiniteSets, TLC

(***************************************************************************)
(* Bounds of the model.                                                    *)
(***************************************************************************)
\* the longest item list a request carries
MaxItems == 2

(***************************************************************************)
(* Characters and strings.                                                 *)
(***************************************************************************)
UpperCase == <<"A","B","C","D","E","F","G","H","I","J","K","L","M",
               "N","O","P","Q","R","S","T","U","V","W","X","Y","Z">>
LowerCase == <<"a","b","c","d","e","f","g","h","i","j","k","l","m",
               "n","o","p","q","r","s","t","u","v","w","x","y","z">>
Digits == <<"0","1","2","3","4","5","6","7","8","9">>

Range(s) == {s[i] : i \in DOMAIN s}

\* B(e) with e evaluated once, whatever expression e is
Let(e, B(_)) == CHOOSE r \in {B(x) : x \in {e}} : TRUE

IsDigit(c) == c \in Range(Digits)

\* String.prototype.toLowerCase, one character
LowerChar(c) ==
    IF \E i \in DOMAIN UpperCase : UpperCase[i] = c
    THEN LowerCase[CHOOSE i \in DOMAIN UpperCase : UpperCase[i] = c]
    ELSE c

ToLowerCase(s) == Let(s, LAMBDA v : [i \in DOMAIN v |-> LowerChar(v[i])])

\* the value of one decimal digit character
DigitValue(c) == (CHOOSE i \in DOMAIN Digits : Digits[i] = c) - 1

\* String(n) of a natural number
RECURSIVE NatToString(_)
NatToString(n) ==
    IF n < 10 THEN <<Digits[n + 1]>>
    ELSE NatToString(n \div 10) \o <<Digits[(n % 10) + 1]>>

\* String.prototype.substring(0, n)
Substring(s, n) == Let(s, LAMBDA v : SubSeq(v, 1, IF n < Len(v) THEN n ELSE Len(v)))

\* String.prototype.padStart(2, '0')
PadStart2(s) == Let(s, LAMBDA v : IF Len(v) < 2 THEN <<"0">> \o v ELSE v)

StartsWith(s, p) ==
    Let(s, LAMBDA v : Len(p) <= Len(v) /\ SubSeq(v, 1, Len(p)) = p)

EndsWith(s, p) ==
    Let(s, LAMBDA v :
        Let(p, LAMBDA w : Len(w) <= Len(v) /\ SubSeq(v, Len(v) - Len(w) + 1, Len(v)) = w))

AllDigits(s) == Let(s, LAMBDA v : \A i \in DOMAIN v : IsDigit(v[i]))

\* 0 when s has no '.', else the position of its last '.'
LastDot(s) ==
    Let(s, LAMBDA v :
        IF \E i \in DOMAIN v : v[i] = "."
        THEN CHOOSE i \in DOMAIN v : v[i] = "." /\ \A j \in DOMAIN v : j > i => v[j] # "."
        ELSE 0)

\* s.replace(/\.[^.]+$/, ''): drops the last '.' and what follows it, when at
\* least one character follows it
StripExtension(s) ==
    Let(s, LAMBDA v :
        Let(LastDot(v), LAMBDA p : IF p > 0 /\ p < Len(v) THEN SubSeq(v, 1, p - 1) ELSE v))

\* s.includes('.') ? '.' + s.split('.').pop() : ''
ExtensionOf(s) ==
    Let(s, LAMBDA v :
        Let(LastDot(v), LAMBDA p : IF p > 0 THEN SubSeq(v, p, Len(v)) ELSE <<>>))

(***************************************************************************)
(* sanitizeFolderName (routes.ts 456-463).                                 *)
(***************************************************************************)
ForbiddenChars == {"<", ">", ":", "\"", "/", "\\", "|", "?", "*"}
WhitespaceChars == {" ", "\t", "\n", "\r"}
FolderMaxLen == 80
SubjectSlugMaxLen == 50
GenericNameMaxLen == 60
AttSlugMaxLen == 60

\* .replace(/[<>:"/\\|?*]/g, '')
StripForbidden(s) == SelectSeq(s, LAMBDA c : c \notin ForbiddenChars)

\* .replace(/\s+/g, '_'): every maximal run of whitespace becomes one '_'
WhitespaceToUnderscore(s) ==
    Let(s, LAMBDA v :
        IF Len(v) = 0 THEN v
        ELSE Let(SelectSeq([i \in DOMAIN v |->
                               <<v[i], i < Len(v) /\ v[i + 1] \in WhitespaceChars>>],
                           LAMBDA p : ~(p[1] \in WhitespaceChars /\ p[2])),
                 LAMBDA kept :
                     [i \in DOMAIN kept |->
                         IF kept[i][1] \in WhitespaceChars THEN "_" ELSE kept[i][1]]))

\* .replace(/_+/g, '_'): every maximal run of '_' becomes one '_'
CollapseUnderscores(s) ==
    Let(s, LAMBDA v :
        IF Len(v) = 0 THEN v
        ELSE Let(SelectSeq([i \in DOMAIN v |-> <<v[i], i < Len(v) /\ v[i + 1] = "_">>],
                           LAMBDA p : ~(p[1] = "_" /\ p[2])),
                 LAMBDA kept : [i \in DOMAIN kept |-> kept[i][1]]))

\* .replace(/^_|_$/g, ''): one leading and one trailing '_' are removed
TrimUnderscore(s) ==
    Let(s, LAMBDA v :
        Let(IF Len(v) > 0 /\ v[1] = "_" THEN SubSeq(v, 2, Len(v)) ELSE v, LAMBDA a :
            IF Len(a) > 0 /\ a[Len(a)] = "_" THEN SubSeq(a, 1, Len(a) - 1) ELSE a))

UnknownName == <<"U","n","k","n","o","w","n">>
NoSubjectName == <<"N","o","_","S","u","b","j","e","c","t">>

sanitizeFolderName(name) ==
    Let(Substring(TrimUnderscore(CollapseUnderscores(
            WhitespaceToUnderscore(StripForbidden(name)))), FolderMaxLen),
        LAMBDA r : IF Len(r) = 0 THEN UnknownName ELSE r)

(***************************************************************************)
(* formatDatePrefix (routes.ts 465-472).  The date strings of the model    *)
(* are ISO date-only strings (YYYY-MM-DD, read by Date as midnight UTC) or *)
(* text Date cannot parse; the server's local time zone is UTC.            *)
(* new Date(unparsable) does not throw: it is an Invalid Date whose        *)
(* getters return NaN, so the catch branch is never taken.                 *)
(***************************************************************************)
NaNString == <<"N","a","N">>

\* new Date(dateStr): a record of the calendar fields, or "Invalid"
ParseDate(s) ==
    IF /\ Len(s) = 10
       /\ s[5] = "-" /\ s[8] = "-"
       /\ \A i \in {1, 2, 3, 4, 6, 7, 9, 10} : IsDigit(s[i])
    THEN LET y == 1000 * DigitValue(s[1]) + 100 * DigitValue(s[2])
                  + 10 * DigitValue(s[3]) + DigitValue(s[4])
             m == 10 * DigitValue(s[6]) + DigitValue(s[7])
             d == 10 * DigitValue(s[9]) + DigitValue(s[10])
         IN IF m \in 1..12 /\ d \in 1..28
            THEN [valid |-> TRUE, year |-> y, month |-> m - 1, date |-> d]
            ELSE [valid |-> FALSE]
    ELSE [valid |-> FALSE]

formatDatePrefix(dateStr) ==
    Let(ParseDate(dateStr), LAMBDA d :
        LET yyyy == IF d.valid THEN NatToString(d.year) ELSE NaNString
            mm == IF d.valid THEN NatToString(d.month + 1) ELSE NaNString
            dd == IF d.valid THEN NatToString(d.date) ELSE NaNString
        IN yyyy \o <<"-">> \o PadStart2(mm) \o <<"-">> \o PadStart2(dd))

\* getFullYear, getMonth and getDate read the fields in the local time zone of
\* the process (routes.ts 468).  A process runs in UTC or in a zone west of
\* Greenwich, where midnight UTC is still the evening of the day before.
Zones == {"UTC", "west"}

IsLeapYear(y) == (y % 4 = 0 /\ y % 100 # 0) \/ y % 400 = 0

\* the days of month m (0 = January) of year y
DaysInMonth(y, m) ==
    IF m = 1 THEN (IF IsLeapYear(y) THEN 29 ELSE 28)
    ELSE IF m \in {3, 5, 8, 10} THEN 30
    ELSE 31

\* the calendar fields of the day before d
PreviousDay(d) ==
    IF d.date > 1 THEN [d EXCEPT !.date = @ - 1]
    ELSE IF d.month > 0
         THEN [d EXCEPT !.month = @ - 1, !.date = DaysInMonth(d.year, d.month - 1)]
    ELSE [d EXCEPT !.year = @ - 1, !.month = 11, !.date = 31]

\* formatDatePrefix in a process whose local time zone is zone
formatDatePrefixIn(zone, dateStr) ==
    Let(ParseDate(dateStr), LAMBDA d :
        IF zone = "UTC" \/ ~d.valid THEN formatDatePrefix(dateStr)
        ELSE Let(PreviousDay(d), LAMBDA l :
                 NatToString(l.year) \o <<"-">> \o PadStart2(NatToString(l.month + 1))
                 \o <<"-">> \o PadStart2(NatToString(l.date))))

IsoTimeSuffix == <<"T","0","0",":","0","0",":","0","0",".","0","0","0","Z">>

\* new Date(item.date).toISOString() inside try/catch (routes.ts 670-673):
\* toISOString throws a RangeError on an Invalid Date and dateISO stays ''
DateISO(dateStr) ==
    Let(ParseDate(dateStr), LAMBDA d :
        IF d.valid
        THEN NatToString(d.year) \o <<"-">> \o PadStart2(NatToString(d.month + 1))
             \o <<"-">> \o PadStart2(NatToString(d.date)) \o IsoTimeSuffix
        ELSE <<>>)

(***************************************************************************)
(* isGenericFilename (routes.ts 441-454).                                  *)
(***************************************************************************)
\* s matches /^<word>_?\d*$/
MatchesWordUnderscoreDigits(s, word) ==
    /\ StartsWith(s, word)
    /\ Let(SubSeq(s, Len(word) + 1, Len(s)), LAMBDA rest :
           AllDigits(IF Len(rest) > 0 /\ rest[1] = "_"
                     THEN SubSeq(rest, 2, Len(rest)) ELSE rest))

\* s matches /^<word>\d*$/
MatchesWordDigits(s, word) ==
    StartsWith(s, word) /\ AllDigits(SubSeq(s, Len(word) + 1, Len(s)))

isGenericFilename(filename) ==
    Let(StripExtension(ToLowerCase(filename)), LAMBDA nameOnly :
        \/ MatchesWordUnderscoreDigits(nameOnly, <<"i","n","l","i","n","e">>)
        \/ MatchesWordUnderscoreDigits(nameOnly, <<"a","t","t","a","c","h","m","e","n","t">>)
        \/ nameOnly = <<"n","o","n","a","m","e">>
        \/ (MatchesWordDigits(nameOnly, <<"a","t","t">>) /\ Len(nameOnly) > 3)
        \/ StartsWith(nameOnly, <<"u","n","n","a","m","e","d">>)
        \/ MatchesWordDigits(nameOnly, <<"i","m","a","g","e">>)
        \/ MatchesWordUnderscoreDigits(nameOnly, <<"f","i","l","e">>))

(***************************************************************************)
(* MIME type tests of the fetch loop (routes.ts 401-402).                  *)
(***************************************************************************)
ImageMimeTypes ==
    { <<"i","m","a","g","e","/","p","n","g">>,
      <<"i","m","a","g","e","/","j","p","e","g">>,
      <<"i","m","a","g","e","/","j","p","g">>,
      <<"i","m","a","g","e","/","g","i","f">>,
      <<"i","m","a","g","e","/","b","m","p">>,
      <<"i","m","a","g","e","/","w","e","b","p">> }
PdfMimeType == <<"a","p","p","l","i","c","a","t","i","o","n","/","p","d","f">>

\* /^image\/(png|jpe?g|gif|bmp|webp)$/i
IsImageMime(m) == ToLowerCase(m) \in ImageMimeTypes
\* /^application\/pdf$/i
IsPdfMime(m) == ToLowerCase(m) = PdfMimeType

(***************************************************************************)
(* The request body.  null is the empty sequence and a present string s is *)
(* <<s>>, for the nullable entityName.                                     *)
(***************************************************************************)
Null == <<>>
Some(s) == <<s>>

\* a || b of JavaScript for a nullable string a: b when a is null or ''
OrElse(a, b) == IF a = Null \/ a[1] = <<>> THEN b ELSE a[1]

AcmeCorp == <<"A","c","m","e"," ","C","o","r","p">>
MarchInvoice == <<"M","a","r","c","h"," ","I","n","v","o","i","c","e">>
ReQ1 == <<"R","e",":"," ","Q","1","?">>
March15 == <<"2","0","2","4","-","0","3","-","1","5">>
NotADate == <<"n","o","t"," ","a"," ","d","a","t","e">>

AttInvoicePdf ==
    [id |-> "att-invoice",
     filename |-> <<"i","n","v","o","i","c","e",".","p","d","f">>,
     mimeType |-> PdfMimeType, size |-> 9]
AttSheetXlsx ==
    [id |-> "att-sheet",
     filename |-> <<"s","h","e","e","t",".","x","l","s","x">>,
     mimeType |-> <<"a","p","p","l","i","c","a","t","i","o","n","/","v","n","d",
                    ".","m","s","-","e","x","c","e","l">>,
     size |-> 7]
AttInlinePng ==
    [id |-> "att-inline",
     filename |-> <<"i","n","l","i","n","e","_","1",".","p","n","g">>,
     mimeType |-> <<"I","M","A","G","E","/","P","N","G">>, size |-> 5]

\* an email with a PDF and a spreadsheet attached
ItemTwoAttachments ==
    [messageId |-> "m1", accountIndex |-> 1, subject |-> MarchInvoice,
     from |-> "billing@acme.com", to |-> "me@example.com", cc |-> "",
     date |-> March15, bodyText |-> "Please find attached.",
     entityName |-> Some(AcmeCorp),
     attachments |-> <<AttInvoicePdf, AttSheetXlsx>>]
\* the scenario of the specification: same entity, date and subject, one PDF
ItemOnePdf ==
    [messageId |-> "m2", accountIndex |-> 1, subject |-> MarchInvoice,
     from |-> "billing@acme.com", to |-> "me@example.com", cc |-> "",
     date |-> March15, bodyText |-> "Invoice attached.",
     entityName |-> Some(AcmeCorp),
     attachments |-> <<AttInvoicePdf>>]
\* no entity matched, nothing attached
ItemNoAttachment ==
    [messageId |-> "m3", accountIndex |-> 2, subject |-> MarchInvoice,
     from |-> "someone@else.org", to |-> "me@example.com", cc |-> "",
     date |-> March15, bodyText |-> "Hello.",
     entityName |-> Null,
     attachments |-> <<>>]
\* a subject with stripped characters, an unparsable date, a generic file name
ItemGenericImage ==
    [messageId |-> "m4", accountIndex |-> 2, subject |-> ReQ1,
     from |-> "Ops <ops@acme.com>", to |-> "me@example.com", cc |-> "",
     date |-> NotADate, bodyText |-> "See picture.",
     entityName |-> Some(AcmeCorp),
     attachments |-> <<AttInlinePng>>]

ItemPool == {ItemTwoAttachments, ItemOnePdf, ItemNoAttachment, ItemGenericImage}

\* the item lists of at most MaxItems items
ItemLists == UNION {[1..n -> ItemPool] : n \in 0..MaxItems}

\* req.body: shapeOk is what bundleSchema.safeParse answers
RequestBodies ==
    {[shapeOk |-> TRUE, items |-> l] : l \in ItemLists}
        \cup {[shapeOk |-> FALSE, items |-> <<>>]}

(***************************************************************************)
(* The documents of one email.  A PDF is the sequence of its pages, a JSON *)
(* record is a record with the fields the code writes.                     *)
(***************************************************************************)
\* the positions of seq whose element satisfies Test
Positions(seq, Test(_)) == {p \in DOMAIN seq : Test(seq[p])}

\* the concatenation of a sequence of sequences
RECURSIVE FlattenFrom(_, _)
FlattenFrom(ss, p) == IF p > Len(ss) THEN <<>> ELSE ss[p] \o FlattenFrom(ss, p + 1)
Flatten(ss) == FlattenFrom(ss, 1)

\* attachments.filter(Test).map(F), F giving the elements as a sequence
MapFiltered(seq, Test(_), F(_, _)) ==
    Flatten([p \in DOMAIN seq |-> IF Test(seq[p]) THEN F(seq[p], p) ELSE <<>>])

KiB == 1024
MiB == 1048576

\* (x / unit).toFixed(1): the tenths of x / unit, rounded half up
ToFixed1(x, unit) ==
    LET tenths == (x * 10 + unit \div 2) \div unit
    IN NatToString(tenths \div 10) \o <<".">> \o NatToString(tenths % 10)

\* formatBytes (routes.ts 589-593)
formatBytes(bytes) ==
    IF bytes < KiB THEN NatToString(bytes) \o <<" ","B">>
    ELSE IF bytes < MiB THEN ToFixed1(bytes, KiB) \o <<" ","K","B">>
    ELSE ToFixed1(bytes, MiB) \o <<" ","M","B">>

\* the badge of one row of the attachment listing (routes.ts 546)
Badge(att) ==
    IF att.isImage THEN "[image preview below]"
    ELSE IF att.isPdf THEN "[PDF preview below]"
    ELSE "[separate file]"

\* what the environment lets happen while one combined PDF is composed:
\*   base   - FALSE when pdfkit fails and generateBasePdf rejects
\*   image  - per image attachment, FALSE when doc.image throws
\*   merge  - FALSE when pdf-lib cannot load the base document or save
\*   splice - per PDF attachment: "ok"; "skip" when the source cannot be
\*            loaded or its first page copied; "nocaption" when drawing the
\*            caption throws after the page was added
ComposeOutcomes(attachments) ==
    [base : BOOLEAN,
     image : [Positions(attachments, LAMBDA a : a.isImage) -> BOOLEAN],
     merge : BOOLEAN,
     splice : [Positions(attachments, LAMBDA a : a.isPdf) -> {"ok", "skip", "nocaption"}]]

\* generateBasePdf (routes.ts 500-587): the pages of the document it resolves
\* with, the metadata page, the body page and one page per image attachment
generateBasePdf(item, attachments, outcome) ==
    <<[kind |-> "metadata",
       title |-> IF item.subject = <<>> THEN <<"(","n","o"," ","s","u","b","j","e","c","t",")">>
                 ELSE item.subject,
       entity |-> OrElse(item.entityName, UnknownName),
       listing |-> MapFiltered(attachments, LAMBDA a : TRUE,
                      LAMBDA a, p : <<[filename |-> a.filename,
                                       size |-> formatBytes(a.size),
                                       badge |-> Badge(a)]>>)],
      [kind |-> "body",
       text |-> IF item.bodyText = "" THEN "(empty body)" ELSE item.bodyText]>>
    \o MapFiltered(attachments, LAMBDA a : a.isImage,
           LAMBDA a, p : <<[kind |-> "image", filename |-> a.filename,
                            embedded |-> outcome.image[p]]>>)

\* the page one PDF attachment adds to the combined document (routes.ts 619-645)
SplicedPages(att, how) ==
    IF how = "skip" THEN <<>>
    ELSE <<[kind |-> "pdf", filename |-> att.filename,
            caption |-> IF how = "ok"
                        THEN <<[filename |-> att.filename, source |-> att.buffer.id]>>
                        ELSE <<>>]>>

\* a variant of generateCombinedPdf without the try/catch around one source:
\* a source that cannot be loaded throws to the outer catch, which returns
\* the base document
generateCombinedPdfOrBase(item, attachments, outcome) ==
    LET base == generateBasePdf(item, attachments, outcome)
    IN IF Positions(attachments, LAMBDA a : a.isPdf) = {} THEN base
       ELSE IF ~outcome.merge THEN base
       ELSE IF \E p \in Positions(attachments, LAMBDA a : a.isPdf) : outcome.splice[p] = "skip"
            THEN base
       ELSE base \o MapFiltered(attachments, LAMBDA a : a.isPdf,
                        LAMBDA a, p : SplicedPages(a, outcome.splice[p]))

\* generateCombinedPdf (routes.ts 595-654), when generateBasePdf resolved
generateCombinedPdf(item, attachments, outcome) ==
    LET base == generateBasePdf(item, attachments, outcome)
    IN IF Positions(attachments, LAMBDA a : a.isPdf) = {} THEN base
       ELSE IF ~outcome.merge THEN base
       ELSE base \o MapFiltered(attachments, LAMBDA a : a.isPdf,
                        LAMBDA a, p : SplicedPages(a, outcome.splice[p]))

\* generateJsonRecord (routes.ts 656-692)
generateJsonRecord(item, attachments) ==
    [messageId |-> item.messageId,
     subject |-> item.subject,
     from |-> item.from,
     to |-> item.to,
     cc |-> item.cc,
     date |-> item.date,
     dateISO |-> DateISO(item.date),
     entity |-> OrElse(item.entityName, UnknownName),
     bodyText |-> item.bodyText,
     attachments |-> MapFiltered(attachments, LAMBDA a : TRUE,
                        LAMBDA a, p : <<[filename |-> a.filename,
                                         mimeType |-> a.mimeType,
                                         size |-> a.size,
                                         previewInCombinedPdf |-> a.isImage \/ a.isPdf]>>)]

(***************************************************************************)
(* Names of the archive entries (routes.ts 377-389, 396-400, 417-425).     *)
(***************************************************************************)
CombinedPdfSuffix == <<"_","c","o","m","b","i","n","e","d",".","p","d","f">>
CombinedJsonSuffix == <<"_","c","o","m","b","i","n","e","d",".","j","s","o","n">>

\* entityFolder (routes.ts 378)
EntityFolderOf(item) == sanitizeFolderName(OrElse(item.entityName, UnknownName))

\* subjectSlug (routes.ts 380)
SubjectSlugOf(item) ==
    Substring(sanitizeFolderName(IF item.subject = <<>> THEN NoSubjectName
                                 ELSE item.subject), SubjectSlugMaxLen)

\* baseFilename before the collision counter is applied (routes.ts 381)
PlainBaseOf(item) == formatDatePrefix(item.date) \o <<"_">> \o SubjectSlugOf(item)

\* fileKey (routes.ts 383)
FileKeyOf(item) == EntityFolderOf(item) \o <<"/">> \o PlainBaseOf(item)

\* fileCounters after the key was looked up (routes.ts 384-389)
CountKey(counters, key) ==
    IF key \in DOMAIN counters
    THEN [counters EXCEPT ![key] = @ + 1]
    ELSE [x \in DOMAIN counters \cup {key} |-> IF x = key THEN 0 ELSE counters[x]]

\* baseFilename after the key was looked up (routes.ts 384-389)
SuffixedBase(counters, key, base) ==
    IF key \in DOMAIN counters
    THEN base \o <<"_">> \o NatToString(counters[key] + 1)
    ELSE base

\* attName: a generic file name gives way to the subject (routes.ts 396-400)
CleanAttachmentName(filename, subject) ==
    IF isGenericFilename(filename) /\ subject # <<>>
    THEN Substring(sanitizeFolderName(subject), GenericNameMaxLen) \o ExtensionOf(filename)
    ELSE filename

\* the name of a raw attachment inside its entity folder (routes.ts 423-425)
RawFileName(datePfx, att) ==
    Let(att.filename, LAMBDA filename :
        datePfx \o <<"_">>
        \o Substring(sanitizeFolderName(StripExtension(filename)), AttSlugMaxLen)
        \o ExtensionOf(filename))

\* the element pushed on downloadedAttachments (routes.ts 396-410); idx is the
\* position of the attachment in item.attachments, kept to tell the entries'
\* origin in the properties
Downloaded(item, k) ==
    LET att == item.attachments[k]
        buffer == [id |-> att.id, length |-> att.size]
    IN [filename |-> CleanAttachmentName(att.filename, item.subject),
        mimeType |-> att.mimeType,
        size |-> buffer.length,
        buffer |-> buffer,
        isImage |-> IsImageMime(att.mimeType),
        isPdf |-> IsPdfMime(att.mimeType),
        idx |-> k]

\* archive.append(combinedPdf, ...) (routes.ts 416-417)
CombinedPdfEntry(item, i, folder, base, attachments, outcome) ==
    [name |-> folder \o <<"/">> \o base \o CombinedPdfSuffix,
     kind |-> "pdf", item |-> i, att |-> 0,
     content |-> [pages |-> generateCombinedPdf(item, attachments, outcome)]]

\* archive.append(JSON.stringify(jsonRecord), ...) (routes.ts 419-420)
CombinedJsonEntry(item, i, folder, base, attachments) ==
    [name |-> folder \o <<"/">> \o base \o CombinedJsonSuffix,
     kind |-> "json", item |-> i, att |-> 0,
     content |-> generateJsonRecord(item, attachments)]

\* a variant of the loop below that appends the raw attachments last first
RawEntriesReversed(i, folder, datePfx, attachments) ==
    [p \in DOMAIN attachments |->
        LET a == attachments[Len(attachments) + 1 - p]
        IN [name |-> folder \o <<"/">> \o RawFileName(datePfx, a),
            kind |-> "raw", item |-> i, att |-> a.idx,
            content |-> a.buffer]]

\* the loop appending the raw attachments (routes.ts 422-426)
RawEntries(i, folder, datePfx, attachments) ==
    [p \in DOMAIN attachments |->
        [name |-> folder \o <<"/">> \o RawFileName(datePfx, attachments[p]),
         kind |-> "raw", item |-> i, att |-> attachments[p].idx,
         content |-> attachments[p].buffer]]

(***************************************************************************)
(* The handler of POST /api/download/bundle, one request.                  *)
(***************************************************************************)
VARIABLES
    body,                   \* req.body
    pc,                     \* where the handler stands
    res,                    \* the HTTP response
    archiveState,           \* "none", "open" (created and piped), "finalized"
    archive,                \* the entries appended to the archive, in order
    fileCounters,           \* the collision counters of this build
    itemIndex,              \* the position of `item` in items
    attIndex,               \* the position of `att` in item.attachments
    entityFolder,           \* locals of the loop body
    datePrefix,
    baseFilename,
    downloadedAttachments,
    errorLog                \* the console.error calls: `what` is the call site
                            \* ("attachment" 412, "preview" 644, "merge" 651,
                            \* "bundle" 431), `err` what threw

VARIABLES
    clientClosed,           \* the peer closed the connection the archive is piped to
    twin,                   \* a second bundle request, served by another process
    search,                 \* one result of POST /api/query/run being enriched
    naming,                 \* a name being sanitized
    store,                  \* the entity store and the requests on it in flight
    guard                   \* a request passing an access guard

\* what the handler of one bundle request leaves alone
others == <<clientClosed, twin, search, naming, store, guard>>

vars == <<body, pc, res, archiveState, archive, fileCounters, itemIndex, attIndex,
          entityFolder, datePrefix, baseFilename, downloadedAttachments, errorLog,
          clientClosed, twin, search, naming, store, guard>>

items == body.items
item == items[itemIndex]

\* no second request, no search, no name at hand
NoTwin == [pc |-> "none"]
NoSearch == [pc |-> "none"]
NoNaming == [pc |-> "none"]
NoStore == [kind |-> "none"]
NoGuard == [pc |-> "none"]

Init ==
    /\ body \in RequestBodies
    /\ clientClosed = FALSE
    /\ store = NoStore
    /\ guard = NoGuard
    /\ twin = NoTwin
    /\ search = NoSearch
    /\ naming = NoNaming
    /\ pc = "request"
    /\ res = [statusCode |-> 200, headersSent |-> FALSE, ended |-> FALSE]
    /\ archiveState = "none"
    /\ archive = <<>>
    /\ fileCounters = <<>>
    /\ itemIndex = 0
    /\ attIndex = 0
    /\ entityFolder = <<>>
    /\ datePrefix = <<>>
    /\ baseFilename = <<>>
    /\ downloadedAttachments = <<>>
    /\ errorLog = {}

\* res.status(code).json(...)
SendError(code) == [statusCode |-> code, headersSent |-> TRUE, ended |-> TRUE]

\* bundleSchema.safeParse fails (routes.ts 358-361)
RejectMalformed ==
    /\ pc = "request"
    /\ UNCHANGED others
    /\ ~body.shapeOk
    /\ res' = SendError(400)
    /\ pc' = "done"
    /\ UNCHANGED <<body, archiveState, archive, fileCounters, itemIndex, attIndex,
                   entityFolder, datePrefix, baseFilename, downloadedAttachments,
                   errorLog>>

\* a variant of RejectEmpty in which the emptiness test comes after the archive
\* was created and piped
RejectEmptyAfterPipe ==
    /\ pc = "request"
    /\ UNCHANGED others
    /\ body.shapeOk
    /\ Len(items) = 0
    /\ archiveState' = "open"
    /\ res' = SendError(400)
    /\ pc' = "done"
    /\ UNCHANGED <<body, archive, fileCounters, itemIndex, attIndex,
                   entityFolder, datePrefix, baseFilename, downloadedAttachments,
                   errorLog>>

\* items.length === 0 (routes.ts 363-366)
RejectEmpty ==
    /\ pc = "request"
    /\ UNCHANGED others
    /\ body.shapeOk
    /\ Len(items) = 0
    /\ res' = SendError(400)
    /\ pc' = "done"
    /\ UNCHANGED <<body, archiveState, archive, fileCounters, itemIndex, attIndex,
                   entityFolder, datePrefix, baseFilename, downloadedAttachments,
                   errorLog>>

\* the archive is created and piped to the response (routes.ts 368-375)
StartBuild ==
    /\ pc = "request"
    /\ UNCHANGED others
    /\ body.shapeOk
    /\ Len(items) > 0
    /\ archiveState' = "open"
    /\ fileCounters' = <<>>
    /\ itemIndex' = 1
    /\ pc' = "item"
    /\ UNCHANGED <<body, res, archive, attIndex, entityFolder, datePrefix,
                   baseFilename, downloadedAttachments, errorLog>>

\* the head of the loop body: names and collision counter (routes.ts 377-391)
BeginItem ==
    /\ pc = "item"
    /\ UNCHANGED others
    /\ entityFolder' = EntityFolderOf(item)
    /\ datePrefix' = formatDatePrefix(item.date)
    /\ baseFilename' = SuffixedBase(fileCounters, FileKeyOf(item), PlainBaseOf(item))
    /\ fileCounters' = CountKey(fileCounters, FileKeyOf(item))
    /\ downloadedAttachments' = <<>>
    /\ attIndex' = 1
    /\ pc' = "fetch"
    /\ UNCHANGED <<body, res, archiveState, archive, itemIndex, errorLog>>

\* downloadAttachment resolves (routes.ts 395-410)
FetchOk ==
    /\ pc = "fetch"
    /\ UNCHANGED others
    /\ attIndex <= Len(item.attachments)
    /\ downloadedAttachments' = Append(downloadedAttachments, Downloaded(item, attIndex))
    /\ attIndex' = attIndex + 1
    /\ UNCHANGED <<body, pc, res, archiveState, archive, fileCounters, itemIndex,
                   entityFolder, datePrefix, baseFilename, errorLog>>

\* a variant of FetchFail in which the attachment is logged and still pushed,
\* with an empty buffer
FetchFailPushesEmpty ==
    /\ pc = "fetch"
    /\ UNCHANGED others
    /\ attIndex <= Len(item.attachments)
    /\ errorLog' = errorLog \cup {[what |-> "attachment", err |-> "fetch", item |-> itemIndex, att |-> attIndex]}
    /\ downloadedAttachments' =
           Append(downloadedAttachments,
                  [Downloaded(item, attIndex) EXCEPT !.size = 0, !.buffer.length = 0])
    /\ attIndex' = attIndex + 1
    /\ UNCHANGED <<body, pc, res, archiveState, archive, fileCounters, itemIndex,
                   entityFolder, datePrefix, baseFilename>>

\* a variant of FetchFail without the try/catch around the fetch: the error
\* reaches the handler's catch, which logs it and answers 500 when no header
\* was sent
FetchFailAborts ==
    /\ pc = "fetch"
    /\ UNCHANGED others
    /\ attIndex <= Len(item.attachments)
    /\ errorLog' = errorLog \cup {[what |-> "bundle", err |-> "fetch", item |-> itemIndex, att |-> attIndex]}
    /\ res' = IF res.headersSent THEN res ELSE SendError(500)
    /\ pc' = "done"
    /\ UNCHANGED <<body, archiveState, archive, fileCounters, itemIndex, attIndex,
                   entityFolder, datePrefix, baseFilename, downloadedAttachments>>

\* downloadAttachment throws: caught and logged (routes.ts 411-413)
FetchFail ==
    /\ pc = "fetch"
    /\ UNCHANGED others
    /\ attIndex <= Len(item.attachments)
    /\ errorLog' = errorLog \cup {[what |-> "attachment", err |-> "fetch", item |-> itemIndex, att |-> attIndex]}
    /\ attIndex' = attIndex + 1
    /\ UNCHANGED <<body, pc, res, archiveState, archive, fileCounters, itemIndex,
                   entityFolder, datePrefix, baseFilename, downloadedAttachments>>

\* what generateCombinedPdf logs (routes.ts 644, 651)
ComposeLog(i, attachments, outcome) ==
    IF Positions(attachments, LAMBDA a : a.isPdf) = {} THEN {}
    ELSE IF ~outcome.merge THEN {[what |-> "merge", err |-> "pdf-lib", item |-> i, att |-> 0]}
    ELSE {[what |-> "preview", err |-> "pdf-lib", item |-> i, att |-> attachments[p].idx] :
             p \in {q \in Positions(attachments, LAMBDA a : a.isPdf) :
                       outcome.splice[q] # "ok"}}

\* the entries one item appends (routes.ts 416-426)
ItemEntries(i, folder, datePfx, base, attachments, outcome) ==
    <<CombinedPdfEntry(items[i], i, folder, base, attachments, outcome),
      CombinedJsonEntry(items[i], i, folder, base, attachments)>>
    \o RawEntries(i, folder, datePfx, attachments)

\* the rest of the loop body once every attachment was tried: the combined
\* PDF is composed, then it, the JSON record and the raw attachments are
\* appended (routes.ts 416-427)
ComposeAndAppend ==
    /\ pc = "fetch"
    /\ UNCHANGED others
    /\ attIndex > Len(item.attachments)
    /\ \E outcome \in ComposeOutcomes(downloadedAttachments) :
          /\ outcome.base
          /\ archive' = archive \o ItemEntries(itemIndex, entityFolder, datePrefix,
                                       baseFilename, downloadedAttachments, outcome)
          /\ errorLog' = errorLog \cup ComposeLog(itemIndex, downloadedAttachments, outcome)
    /\ IF itemIndex < Len(items)
       THEN itemIndex' = itemIndex + 1 /\ pc' = "item"
       ELSE itemIndex' = itemIndex /\ pc' = "finalize"
    /\ UNCHANGED <<body, res, archiveState, fileCounters, attIndex, entityFolder,
                   datePrefix, baseFilename, downloadedAttachments>>

\* generateBasePdf rejects: the handler's catch logs and answers 500 only
\* when no header was sent yet (routes.ts 416, 430-435)
ComposeReject ==
    /\ pc = "fetch"
    /\ UNCHANGED others
    /\ attIndex > Len(item.attachments)
    /\ errorLog' = errorLog \cup {[what |-> "bundle", err |-> "pdfkit", item |-> itemIndex, att |-> 0]}
    /\ res' = IF res.headersSent THEN res ELSE SendError(500)
    /\ pc' = "done"
    /\ UNCHANGED <<body, archiveState, archive, fileCounters, itemIndex, attIndex,
                   entityFolder, datePrefix, baseFilename, downloadedAttachments>>

\* the piped archive writes its first bytes to the response (routes.ts 373)
Drain ==
    /\ archiveState = "open"
    /\ UNCHANGED others
    /\ ~clientClosed
    /\ archive # <<>>
    /\ ~res.headersSent
    /\ res' = [res EXCEPT !.headersSent = TRUE]
    /\ UNCHANGED <<body, pc, archiveState, archive, fileCounters, itemIndex, attIndex,
                   entityFolder, datePrefix, baseFilename, downloadedAttachments,
                   errorLog>>

\* archive.finalize(): the archive ends and, piped, ends the response
\* (routes.ts 429)
Finalize ==
    /\ pc = "finalize"
    /\ UNCHANGED others
    /\ archiveState' = "finalized"
    /\ res' = [res EXCEPT !.headersSent = TRUE, !.ended = TRUE]
    /\ pc' = "done"
    /\ UNCHANGED <<body, archive, fileCounters, itemIndex, attIndex, entityFolder,
                   datePrefix, baseFilename, downloadedAttachments, errorLog>>

Next ==
    \/ RejectMalformed
    \/ RejectEmpty
    \/ StartBuild
    \/ BeginItem
    \/ FetchOk
    \/ FetchFail
    \/ ComposeAndAppend
    \/ ComposeReject
    \/ Drain
    \/ Finalize

Spec == Init /\ [][Next]_vars

\* the event loop runs every continuation that is ready
FairSpec == Spec /\ WF_vars(Next)

(***************************************************************************)
(* The same handler on requests whose names carry path characters, with a  *)
(* peer that may close the connection while the archive is being built.    *)
(* The handler registers no 'close' or 'aborted' listener on req, res or   *)
(* archive (routes.ts 357-436): nothing in it reads the connection's state.*)
(***************************************************************************)
DotDot == <<".", ".">>
SlashedSubject == <<"a", "/", "b">>

\* an attachment whose extension holds a path separator
AttSlashedExtension ==
    [id |-> "att-slashed",
     filename |-> <<"x", ".", "p", "/", "d", "f">>,
     mimeType |-> <<"t","e","x","t","/","p","l","a","i","n">>, size |-> 3]

\* an email whose entity name, subject and attachment name carry path characters
ItemHostileNames ==
    [messageId |-> "m5", accountIndex |-> 1, subject |-> SlashedSubject,
     from |-> "x@evil.example", to |-> "me@example.com", cc |-> "",
     date |-> March15, bodyText |-> "Open me.",
     entityName |-> Some(DotDot),
     attachments |-> <<AttSlashedExtension>>]

HostileItemPool == {ItemHostileNames, ItemTwoAttachments}

HostileRequestBodies ==
    {[shapeOk |-> TRUE, items |-> l] :
        l \in UNION {[1..n -> HostileItemPool] : n \in 0..MaxItems}}
        \cup {[shapeOk |-> FALSE, items |-> <<>>]}

HostileInit ==
    /\ body \in HostileRequestBodies
    /\ clientClosed = FALSE
    /\ store = NoStore
    /\ guard = NoGuard
    /\ twin = NoTwin
    /\ search = NoSearch
    /\ naming = NoNaming
    /\ pc = "request"
    /\ res = [statusCode |-> 200, headersSent |-> FALSE, ended |-> FALSE]
    /\ archiveState = "none"
    /\ archive = <<>>
    /\ fileCounters = <<>>
    /\ itemIndex = 0
    /\ attIndex = 0
    /\ entityFolder = <<>>
    /\ datePrefix = <<>>
    /\ baseFilename = <<>>
    /\ downloadedAttachments = <<>>
    /\ errorLog = {}

\* the peer closes or aborts the connection while the request is being served
ClientClose ==
    /\ pc \notin {"request", "done"}
    /\ ~clientClosed
    /\ clientClosed' = TRUE
    /\ UNCHANGED <<body, pc, res, archiveState, archive, fileCounters, itemIndex,
                   attIndex, entityFolder, datePrefix, baseFilename,
                   downloadedAttachments, errorLog, twin, search, naming, store, guard>>

HostileNext ==
    \/ Next
    \/ ClientClose

HostileSpec == HostileInit /\ [][HostileNext]_vars

(***************************************************************************)
(* Two builds of one request.  The same body is posted twice; the second   *)
(* request is served by a handler invocation of its own, in this process   *)
(* or in another deployment, whose local time zone need not be UTC.  Each  *)
(* invocation declares its own fileCounters (routes.ts 375).  Which        *)
(* attachment fetches fail is decided once and is the same for both.       *)
(***************************************************************************)
TwinItemPool == {ItemOnePdf, ItemNoAttachment}

TwinRequestBodies ==
    {[shapeOk |-> TRUE, items |-> l] :
        l \in UNION {[1..n -> TwinItemPool] : n \in 1..MaxItems}}

\* the attachments a build of the list l tries to fetch
FetchPositions(l) == UNION {{<<i, k>> : k \in DOMAIN l[i].attachments} : i \in DOMAIN l}

\* the second invocation before its first statement
TwinAt(zone, failing) ==
    [pc |-> "request", zone |-> zone, failing |-> failing,
     fileCounters |-> <<>>, itemIndex |-> 0, attIndex |-> 0,
     entityFolder |-> <<>>, datePrefix |-> <<>>, baseFilename |-> <<>>,
     downloadedAttachments |-> <<>>, paths |-> <<>>, finalized |-> FALSE]

TwinInit ==
    /\ body \in TwinRequestBodies
    /\ clientClosed = FALSE
    /\ store = NoStore
    /\ guard = NoGuard
    /\ twin \in {TwinAt(zone, failing) :
                    zone \in Zones, failing \in SUBSET FetchPositions(body.items)}
    /\ search = NoSearch
    /\ naming = NoNaming
    /\ pc = "request"
    /\ res = [statusCode |-> 200, headersSent |-> FALSE, ended |-> FALSE]
    /\ archiveState = "none"
    /\ archive = <<>>
    /\ fileCounters = <<>>
    /\ itemIndex = 0
    /\ attIndex = 0
    /\ entityFolder = <<>>
    /\ datePrefix = <<>>
    /\ baseFilename = <<>>
    /\ downloadedAttachments = <<>>
    /\ errorLog = {}

\* the first build's fetch, with the outcome that was decided
FetchOkAsDecided ==
    /\ FetchOk
    /\ <<itemIndex, attIndex>> \notin twin.failing

FetchFailAsDecided ==
    /\ FetchFail
    /\ <<itemIndex, attIndex>> \in twin.failing

twinItem == items[twin.itemIndex]

\* the variables of the first build and of the other handlers
firstBuild == <<body, pc, res, archiveState, archive, fileCounters, itemIndex,
                attIndex, entityFolder, datePrefix, baseFilename,
                downloadedAttachments, errorLog, clientClosed, search, naming, store, guard>>

\* `${datePrefix}_${subjectSlug}` and fileKey in the second invocation
\* (routes.ts 379-384)
PlainBaseIn(zone, it) == formatDatePrefixIn(zone, it.date) \o <<"_">> \o SubjectSlugOf(it)
FileKeyIn(zone, it) == EntityFolderOf(it) \o <<"/">> \o PlainBaseIn(zone, it)

\* routes.ts 368-375 in the second invocation
TwinStartBuild ==
    /\ twin.pc = "request"
    /\ twin' = [twin EXCEPT !.pc = "item", !.itemIndex = 1, !.fileCounters = <<>>]
    /\ UNCHANGED firstBuild

\* routes.ts 377-391 in the second invocation
TwinBeginItem ==
    /\ twin.pc = "item"
    /\ twin' = [twin EXCEPT
                   !.entityFolder = EntityFolderOf(twinItem),
                   !.datePrefix = formatDatePrefixIn(twin.zone, twinItem.date),
                   !.baseFilename = SuffixedBase(twin.fileCounters,
                                                 FileKeyIn(twin.zone, twinItem),
                                                 PlainBaseIn(twin.zone, twinItem)),
                   !.fileCounters = CountKey(twin.fileCounters,
                                             FileKeyIn(twin.zone, twinItem)),
                   !.downloadedAttachments = <<>>,
                   !.attIndex = 1,
                   !.pc = "fetch"]
    /\ UNCHANGED firstBuild

\* routes.ts 395-410 in the second invocation
TwinFetchOk ==
    /\ twin.pc = "fetch"
    /\ twin.attIndex <= Len(twinItem.attachments)
    /\ <<twin.itemIndex, twin.attIndex>> \notin twin.failing
    /\ twin' = [twin EXCEPT
                   !.downloadedAttachments = Append(@, Downloaded(twinItem, twin.attIndex)),
                   !.attIndex = @ + 1]
    /\ UNCHANGED firstBuild

\* routes.ts 411-413 in the second invocation
TwinFetchFail ==
    /\ twin.pc = "fetch"
    /\ twin.attIndex <= Len(twinItem.attachments)
    /\ <<twin.itemIndex, twin.attIndex>> \in twin.failing
    /\ twin' = [twin EXCEPT !.attIndex = @ + 1]
    /\ UNCHANGED firstBuild

\* the names of a list of entries
PathsOf(entries) == [p \in DOMAIN entries |-> entries[p].name]

\* routes.ts 416-427 in the second invocation; of its archive the names are kept
TwinComposeAndAppend ==
    /\ twin.pc = "fetch"
    /\ twin.attIndex > Len(twinItem.attachments)
    /\ \E outcome \in ComposeOutcomes(twin.downloadedAttachments) :
          /\ outcome.base
          /\ twin' = [twin EXCEPT
                         !.paths = @ \o PathsOf(ItemEntries(twin.itemIndex, twin.entityFolder,
                                                            twin.datePrefix, twin.baseFilename,
                                                            twin.downloadedAttachments, outcome)),
                         !.itemIndex = IF @ < Len(items) THEN @ + 1 ELSE @,
                         !.pc = IF twin.itemIndex < Len(items) THEN "item" ELSE "finalize"]
    /\ UNCHANGED firstBuild

\* routes.ts 416, 430-435 in the second invocation
TwinComposeReject ==
    /\ twin.pc = "fetch"
    /\ twin.attIndex > Len(twinItem.attachments)
    /\ twin' = [twin EXCEPT !.pc = "done"]
    /\ UNCHANGED firstBuild

\* routes.ts 429 in the second invocation
TwinFinalize ==
    /\ twin.pc = "finalize"
    /\ twin' = [twin EXCEPT !.pc = "done", !.finalized = TRUE]
    /\ UNCHANGED firstBuild

TwinNext ==
    \/ StartBuild
    \/ BeginItem
    \/ FetchOkAsDecided
    \/ FetchFailAsDecided
    \/ ComposeAndAppend
    \/ ComposeReject
    \/ Drain
    \/ Finalize
    \/ TwinStartBuild
    \/ TwinBeginItem
    \/ TwinFetchOk
    \/ TwinFetchFail
    \/ TwinComposeAndAppend
    \/ TwinComposeReject
    \/ TwinFinalize

TwinSpec == TwinInit /\ [][TwinNext]_vars

(***************************************************************************)
(* POST /api/query/run: one search result is given the entity whose        *)
(* sender pattern matches its From header (routes.ts 283-311).             *)
(***************************************************************************)
MaxMappings == 2

\* From headers
FromPlain == <<"u","@","a",".","i","o">>
FromUpperSub == <<"U","@","S",".","A",".","I","O">>
FromSub == <<"u","@","s",".","a",".","i","o">>
FromOtherDomain == <<"u","@","b","a",".","i","o">>
FromNamed == <<"N"," ","<","u","@","a",".","i","o",">">>
FromPool == {FromPlain, FromUpperSub, FromSub, FromOtherDomain, FromNamed}

\* sender patterns
PatDomain == <<"*","@","a",".","i","o">>
PatLiteral == <<"U","@","A",".","i","o">>
PatSubDomain == <<"*","@","s",".","a",".","i","o">>
PatElsewhere == <<"*","@","b",".","i","o">>

\* rows of the sender mapping table
MappingPool ==
    {[entityId |-> "e1", pattern |-> PatDomain],
     [entityId |-> "e2", pattern |-> PatLiteral],
     [entityId |-> "e3", pattern |-> PatSubDomain],
     [entityId |-> "e2", pattern |-> PatElsewhere]}

EntityIdPool == {"e1", "e2", "e3"}

\* new Map(entitiesData.map(e => [e.id, e.name])) (routes.ts 281)
entityMap ==
    [e \in EntityIdPool |->
        IF e = "e1" THEN <<"A","c","m","e">>
        ELSE IF e = "e2" THEN <<"B","e","t","a">>
        ELSE <<"S","u","b">>]

\* r.from.match(/<([^>]+)>/)?.[1] || r.from (routes.ts 284): the text between
\* the leftmost '<' that is followed by at least one character other than
\* '>' and the next '>'
ExtractAddress(from) ==
    Let(from, LAMBDA v :
        Let({i \in DOMAIN v :
                /\ v[i] = "<"
                /\ i + 1 <= Len(v)
                /\ v[i + 1] # ">"
                /\ \E j \in (i + 2)..Len(v) : v[j] = ">"}, LAMBDA opens :
            IF opens = {} THEN v
            ELSE LET i == CHOOSE a \in opens : \A b \in opens : a <= b
                     j == CHOOSE a \in (i + 2)..Len(v) :
                              v[a] = ">" /\ \A b \in (i + 2)..(a - 1) : v[b] # ">"
                 IN  SubSeq(v, i + 1, j - 1)))

\* the test of one pattern against the sender address (routes.ts 290-299)
PatternMatches(fromAddress, p) ==
    IF StartsWith(p, <<"*", "@">>)
    THEN LET domain == SubSeq(p, 3, Len(p))
         IN  \/ EndsWith(fromAddress, <<"@">> \o domain)
             \/ EndsWith(fromAddress, <<".">> \o domain)
    ELSE ToLowerCase(fromAddress) = ToLowerCase(p)

SearchAt(from, allMappings, entityIds) ==
    [pc |-> "from", from |-> from, allMappings |-> allMappings, entityIds |-> entityIds,
     fromAddress |-> <<>>, index |-> 0,
     matchedEntityId |-> Null, matchedEntityName |-> Null]

MatchInit ==
    /\ search \in {SearchAt(from, allMappings, entityIds) :
                      from \in FromPool,
                      allMappings \in UNION {[1..n -> MappingPool] : n \in 0..MaxMappings},
                      entityIds \in SUBSET EntityIdPool}
    /\ body = [shapeOk |-> FALSE, items |-> <<>>]
    /\ clientClosed = FALSE
    /\ store = NoStore
    /\ guard = NoGuard
    /\ twin = NoTwin
    /\ naming = NoNaming
    /\ pc = "request"
    /\ res = [statusCode |-> 200, headersSent |-> FALSE, ended |-> FALSE]
    /\ archiveState = "none"
    /\ archive = <<>>
    /\ fileCounters = <<>>
    /\ itemIndex = 0
    /\ attIndex = 0
    /\ entityFolder = <<>>
    /\ datePrefix = <<>>
    /\ baseFilename = <<>>
    /\ downloadedAttachments = <<>>
    /\ errorLog = {}

\* the variables the enrichment of a result leaves alone
notSearch == <<body, pc, res, archiveState, archive, fileCounters, itemIndex,
               attIndex, entityFolder, datePrefix, baseFilename,
               downloadedAttachments, errorLog, clientClosed, twin, naming, store, guard>>

mapping == search.allMappings[search.index]

\* the mapping at hand belongs to a selected entity and its pattern matches
MappingApplies ==
    /\ mapping.entityId \in search.entityIds
    /\ PatternMatches(search.fromAddress, mapping.pattern)

\* routes.ts 284-286
BeginMatch ==
    /\ search.pc = "from"
    /\ search' = [search EXCEPT !.fromAddress = ExtractAddress(search.from),
                                !.index = 1, !.pc = "loop"]
    /\ UNCHANGED notSearch

\* one turn of the loop that falls through (routes.ts 288-304)
SkipMapping ==
    /\ search.pc = "loop"
    /\ search.index <= Len(search.allMappings)
    /\ ~MappingApplies
    /\ search' = [search EXCEPT !.index = @ + 1]
    /\ UNCHANGED notSearch

\* a variant of TakeMapping without the break: the loop goes on and a later
\* mapping that applies overwrites the entity
TakeMappingGoesOn ==
    /\ search.pc = "loop"
    /\ search.index <= Len(search.allMappings)
    /\ MappingApplies
    /\ search' = [search EXCEPT
                     !.matchedEntityId = Some(mapping.entityId),
                     !.matchedEntityName = Some(entityMap[mapping.entityId]),
                     !.index = @ + 1]
    /\ UNCHANGED notSearch

\* the turn of the loop that takes the mapping and breaks (routes.ts 293-295,
\* 298-300), then the return (306-310)
TakeMapping ==
    /\ search.pc = "loop"
    /\ search.index <= Len(search.allMappings)
    /\ MappingApplies
    /\ search' = [search EXCEPT
                     !.matchedEntityId = Some(mapping.entityId),
                     !.matchedEntityName = Some(entityMap[mapping.entityId]),
                     !.pc = "done"]
    /\ UNCHANGED notSearch

\* the loop ends without a break, then the return (routes.ts 304-310)
EndOfMappings ==
    /\ search.pc = "loop"
    /\ search.index > Len(search.allMappings)
    /\ search' = [search EXCEPT !.pc = "done"]
    /\ UNCHANGED notSearch

MatchNext ==
    \/ BeginMatch
    \/ SkipMapping
    \/ TakeMapping
    \/ EndOfMappings

MatchSpec == MatchInit /\ [][MatchNext]_vars

(***************************************************************************)
(* Names.  sanitizeFolderName cuts at 80 characters and its callers cut    *)
(* the result again with .substring(0, 50) and .substring(0, 60)           *)
(* (routes.ts 380, 399, 423, 456-463).  A name is sanitized, and what came *)
(* out is sanitized again; or it is the subject and the entity name of an  *)
(* item whose folder and subject slug are computed.                        *)
(***************************************************************************)
MaxRawLen == 2

RawAlphabet == {"a", "_", " ", "?"}

\* the lengths a name is cut to
SegmentCaps == {SubjectSlugMaxLen, AttSlugMaxLen, FolderMaxLen}

\* n times the letter a
LettersA(n) == [i \in 1..n |-> "a"]

\* names: nothing or a run of letters one short of a cap, then a few
\* characters of the alphabet
RawNames ==
    {LettersA(n) \o tail :
        n \in {0} \cup {cap - 1 : cap \in SegmentCaps},
        tail \in UNION {[1..k -> RawAlphabet] : k \in 0..MaxRawLen}}

\* sanitizeFolderName(raw).substring(0, maxLen) (routes.ts 380, 423)
sanitizeSegment(raw, maxLen) == Substring(sanitizeFolderName(raw), maxLen)

NamingAt(raw, maxLen) ==
    [pc |-> "raw", raw |-> raw, maxLen |-> maxLen, once |-> <<>>, twice |-> <<>>,
     entityFolder |-> <<>>, subjectSlug |-> <<>>]

NamingInit ==
    /\ naming \in {NamingAt(raw, maxLen) : raw \in RawNames, maxLen \in SegmentCaps}
    /\ body = [shapeOk |-> FALSE, items |-> <<>>]
    /\ clientClosed = FALSE
    /\ store = NoStore
    /\ guard = NoGuard
    /\ twin = NoTwin
    /\ search = NoSearch
    /\ pc = "request"
    /\ res = [statusCode |-> 200, headersSent |-> FALSE, ended |-> FALSE]
    /\ archiveState = "none"
    /\ archive = <<>>
    /\ fileCounters = <<>>
    /\ itemIndex = 0
    /\ attIndex = 0
    /\ entityFolder = <<>>
    /\ datePrefix = <<>>
    /\ baseFilename = <<>>
    /\ downloadedAttachments = <<>>
    /\ errorLog = {}

notNaming == <<body, pc, res, archiveState, archive, fileCounters, itemIndex,
               attIndex, entityFolder, datePrefix, baseFilename,
               downloadedAttachments, errorLog, clientClosed, twin, search, store, guard>>

\* the name is sanitized and cut
SanitizeOnce ==
    /\ naming.pc = "raw"
    /\ naming' = [naming EXCEPT !.once = sanitizeSegment(naming.raw, naming.maxLen),
                                !.pc = "once"]
    /\ UNCHANGED notNaming

\* what came out is sanitized and cut again
SanitizeAgain ==
    /\ naming.pc = "once"
    /\ naming' = [naming EXCEPT !.twice = sanitizeSegment(naming.once, naming.maxLen),
                                !.pc = "twice"]
    /\ UNCHANGED notNaming

\* the name is the entity name and the subject of an item (routes.ts 378-380)
NameItem ==
    /\ naming.pc = "raw"
    /\ naming' = [naming EXCEPT
                     !.entityFolder = EntityFolderOf([entityName |-> Some(naming.raw)]),
                     !.subjectSlug = SubjectSlugOf([subject |-> naming.raw]),
                     !.pc = "item"]
    /\ UNCHANGED notNaming

NamingNext ==
    \/ SanitizeOnce
    \/ SanitizeAgain
    \/ NameItem

NamingSpec == NamingInit /\ [][NamingNext]_vars

(***************************************************************************)
(* The name shown and stored for an attachment.  The server computes it in *)
(* the fetch loop (routes.ts 396-400), the client computes it again for    *)
(* the result list with its own helpers (part_003 59-74).  isGenericFilename*)
(* is the same text on both sides (routes.ts 441-454, part_003 44-57).     *)
(***************************************************************************)
\* sanitizeForFilename of the client (part_003 59-66)
sanitizeForFilename(str) ==
    Substring(TrimUnderscore(CollapseUnderscores(
        WhitespaceToUnderscore(StripForbidden(str)))), FolderMaxLen)

\* getCleanAttachmentName of the client (part_003 68-74)
getCleanAttachmentName(original, subject) ==
    IF isGenericFilename(original) /\ subject # <<>>
    THEN sanitizeForFilename(subject) \o ExtensionOf(original)
    ELSE original

\* attachment file names
FileNames ==
    { <<"i","m","a","g","e",".","p","n","g">>,
      <<"i","n","l","i","n","e","_","1",".","p","d","f">>,
      <<"a","t","t","a","c","h","m","e","n","t",".","p","d","f">>,
      <<"n","o","n","a","m","e",".","j","p","g">>,
      <<"A","T","T","0","0","1",".","b","i","n">>,
      <<"f","i","l","e">>,
      <<"i","m","a","g","e",".">>,
      <<"i","n","v","o","i","c","e","-","m","a","r","c","h",".","p","d","f">> }

\* subjects: none, ordinary ones, one longer than the server's cut, and the
\* short names over the alphabet
Subjects ==
    {<<>>, MarchInvoice, ReQ1, LettersA(GenericNameMaxLen + 1)}
        \cup UNION {[1..k -> RawAlphabet] : k \in 1..MaxRawLen}

CleanAt(filename, subject) ==
    [pc |-> "names", filename |-> filename, subject |-> subject,
     server |-> Null, client |-> Null]

CleanInit ==
    /\ naming \in {CleanAt(filename, subject) : filename \in FileNames, subject \in Subjects}
    /\ body = [shapeOk |-> FALSE, items |-> <<>>]
    /\ clientClosed = FALSE
    /\ store = NoStore
    /\ guard = NoGuard
    /\ twin = NoTwin
    /\ search = NoSearch
    /\ pc = "request"
    /\ res = [statusCode |-> 200, headersSent |-> FALSE, ended |-> FALSE]
    /\ archiveState = "none"
    /\ archive = <<>>
    /\ fileCounters = <<>>
    /\ itemIndex = 0
    /\ attIndex = 0
    /\ entityFolder = <<>>
    /\ datePrefix = <<>>
    /\ baseFilename = <<>>
    /\ downloadedAttachments = <<>>
    /\ errorLog = {}

\* the server names the attachment (routes.ts 396-400)
CleanOnServer ==
    /\ naming.pc = "names"
    /\ naming.server = Null
    /\ naming' = [naming EXCEPT
                     !.server = Some(CleanAttachmentName(naming.filename, naming.subject))]
    /\ UNCHANGED notNaming

\* the client names the attachment (part_003 68-74)
CleanInClient ==
    /\ naming.pc = "names"
    /\ naming.client = Null
    /\ naming' = [naming EXCEPT
                     !.client = Some(getCleanAttachmentName(naming.filename, naming.subject))]
    /\ UNCHANGED notNaming

CleanNext ==
    \/ CleanOnServer
    \/ CleanInClient

CleanSpec == CleanInit /\ [][CleanNext]_vars

(***************************************************************************)
(* The bundle handler on requests of one email that carries several        *)
(* previewable attachments: two PDF files with an image between them.      *)
(***************************************************************************)
AttReportPdf ==
    [id |-> "att-report",
     filename |-> <<"r","e","p","o","r","t",".","p","d","f">>,
     mimeType |-> PdfMimeType, size |-> 4]

ItemManyPreviews ==
    [messageId |-> "m6", accountIndex |-> 1, subject |-> MarchInvoice,
     from |-> "billing@acme.com", to |-> "me@example.com", cc |-> "",
     date |-> March15, bodyText |-> "Invoice and report attached.",
     entityName |-> Some(AcmeCorp),
     attachments |-> <<AttInvoicePdf, AttInlinePng, AttReportPdf>>]

PreviewRequestBodies ==
    {[shapeOk |-> TRUE, items |-> l] : l \in {<<>>, <<ItemManyPreviews>>, <<ItemOnePdf>>}}
        \cup {[shapeOk |-> FALSE, items |-> <<>>]}

PreviewInit ==
    /\ body \in PreviewRequestBodies
    /\ clientClosed = FALSE
    /\ store = NoStore
    /\ guard = NoGuard
    /\ twin = NoTwin
    /\ search = NoSearch
    /\ naming = NoNaming
    /\ pc = "request"
    /\ res = [statusCode |-> 200, headersSent |-> FALSE, ended |-> FALSE]
    /\ archiveState = "none"
    /\ archive = <<>>
    /\ fileCounters = <<>>
    /\ itemIndex = 0
    /\ attIndex = 0
    /\ entityFolder = <<>>
    /\ datePrefix = <<>>
    /\ baseFilename = <<>>
    /\ downloadedAttachments = <<>>
    /\ errorLog = {}

PreviewSpec == PreviewInit /\ [][Next]_vars

(***************************************************************************)
(* The entity store and the routes on it (routes.ts 126-158).  The         *)
(* repository holds two implementations of IStorage: InMemoryStorage, two  *)
(* Maps in process memory (part_007), and DatabaseStorage on the tables of *)
(* part_008, where email_mappings.entity_id references entities.id with    *)
(* ON DELETE CASCADE (storage.ts).  A deployment runs one of them.  Ids    *)
(* are fresh (randomUUID, gen_random_uuid): the number of the storage call *)
(* that made the row.  Every await yields to the other requests.           *)
(***************************************************************************)
MaxOps == 4
MaxPatterns == 2

StorageKinds == {"memory", "database"}

StoreAt(kind) ==
    [kind |-> kind,
     entities |-> <<>>,                 \* the ids of the entities, in insertion order
     mappings |-> <<>>,                 \* the mappings, in insertion order
     ops |-> 0,                         \* the storage calls made so far
     last |-> [op |-> "none", id |-> 0, gone |-> 0],   \* the last call and the rows it removed
     posting |-> {}]                    \* the POST /api/entities handlers in flight

StoreInit ==
    /\ store \in {StoreAt(kind) : kind \in StorageKinds}
    /\ body = [shapeOk |-> FALSE, items |-> <<>>]
    /\ clientClosed = FALSE
    /\ guard = NoGuard
    /\ twin = NoTwin
    /\ search = NoSearch
    /\ naming = NoNaming
    /\ pc = "request"
    /\ res = [statusCode |-> 200, headersSent |-> FALSE, ended |-> FALSE]
    /\ archiveState = "none"
    /\ archive = <<>>
    /\ fileCounters = <<>>
    /\ itemIndex = 0
    /\ attIndex = 0
    /\ entityFolder = <<>>
    /\ datePrefix = <<>>
    /\ baseFilename = <<>>
    /\ downloadedAttachments = <<>>
    /\ errorLog = {}

notStore == <<body, pc, res, archiveState, archive, fileCounters, itemIndex,
              attIndex, entityFolder, datePrefix, baseFilename,
              downloadedAttachments, errorLog, clientClosed, twin, search, naming,
              guard>>

\* getMappings(entityId) (part_007 63-66, storage.ts 60-65)
getMappings(st, entityId) == SelectSeq(st.mappings, LAMBDA m : m.entityId = entityId)

\* createEntity (part_007 50-54, storage.ts 51-54)
createEntity(st, id) == [st EXCEPT !.entities = Append(@, id)]

\* the insert of createMapping goes through: a Map takes any entityId, the
\* table only one that is the id of an entity (part_007 68-72, part_008 20)
AcceptsMapping(st, entityId) ==
    st.kind = "memory" \/ \E k \in DOMAIN st.entities : st.entities[k] = entityId

\* createMapping (part_007 68-72, storage.ts 67-70)
createMapping(st, id, entityId) ==
    [st EXCEPT !.mappings = Append(@, [id |-> id, entityId |-> entityId,
                                       pattern |-> PatDomain])]

\* a variant of deleteEntity that removes the entity and leaves its mappings
deleteEntityAlone(st, id) ==
    [st EXCEPT !.entities = SelectSeq(@, LAMBDA e : e # id)]

\* deleteEntity: the Map entry and, in a loop, the mappings of the entity
\* (part_007 56-61); the row, and by the foreign key its mappings
\* (storage.ts 56-58, part_008 20)
deleteEntity(st, id) ==
    [st EXCEPT !.entities = SelectSeq(@, LAMBDA e : e # id),
               !.mappings = SelectSeq(@, LAMBDA m : m.entityId # id)]

\* deleteMapping (part_007 74-76, storage.ts 72-74)
deleteMapping(st, id) == [st EXCEPT !.mappings = SelectSeq(@, LAMBDA m : m.id # id)]

\* the storage call op on id was made and removed gone rows
Called(st, op, id, gone) ==
    [st EXCEPT !.ops = @ + 1, !.last = [op |-> op, id |-> id, gone |-> gone]]

\* the ids a client can name: those handed out so far
KnownIds == 1..store.ops

\* POST /api/entities up to its first await: the entity is created
\* (routes.ts 126-131); n patterns are still to be stored
PostEntity ==
    /\ store.ops < MaxOps
    /\ \E n \in 0..MaxPatterns :
          store' = [Called(createEntity(store, store.ops + 1), "createEntity",
                           store.ops + 1, 0)
                       EXCEPT !.posting = @ \cup {[entity |-> store.ops + 1, left |-> n]}]
    /\ UNCHANGED notStore

\* one turn of its loop: a pattern of the new entity is stored (routes.ts 133-135)
PostEntityPattern ==
    /\ store.ops < MaxOps
    /\ \E h \in store.posting :
          /\ h.left > 0
          /\ AcceptsMapping(store, h.entity)
          /\ store' = [Called(createMapping(store, store.ops + 1, h.entity),
                              "createMapping", store.ops + 1, 0)
                          EXCEPT !.posting = (@ \ {h}) \cup {[h EXCEPT !.left = @ - 1]}]
    /\ UNCHANGED notStore

\* one turn of its loop in which the insert violates the foreign key:
\* createMapping rejects and the handler ends there (routes.ts 134)
PostEntityPatternRefused ==
    /\ store.ops < MaxOps
    /\ \E h \in store.posting :
          /\ h.left > 0
          /\ ~AcceptsMapping(store, h.entity)
          /\ store' = [Called(store, "createMappingRefused", h.entity, 0)
                          EXCEPT !.posting = @ \ {h}]
    /\ UNCHANGED notStore

\* the loop is over: the mappings of the entity are read and sent
\* (routes.ts 136-137)
PostEntityRespond ==
    /\ \E h \in store.posting :
          /\ h.left = 0
          /\ store' = [store EXCEPT !.posting = @ \ {h}]
    /\ UNCHANGED notStore

\* POST /api/mappings: the body names any entity id (routes.ts 146-153)
PostMapping ==
    /\ store.ops < MaxOps
    /\ \E entityId \in KnownIds :
          /\ AcceptsMapping(store, entityId)
          /\ store' = Called(createMapping(store, store.ops + 1, entityId),
                             "createMapping", store.ops + 1, 0)
    /\ UNCHANGED notStore

\* POST /api/mappings whose insert violates the foreign key (routes.ts 151)
PostMappingRefused ==
    /\ store.ops < MaxOps
    /\ \E entityId \in KnownIds :
          /\ ~AcceptsMapping(store, entityId)
          /\ store' = Called(store, "createMappingRefused", entityId, 0)
    /\ UNCHANGED notStore

\* DELETE /api/mappings/:id (routes.ts 155-158)
DeleteMapping ==
    /\ store.ops < MaxOps
    /\ \E id \in KnownIds :
          store' = Called(deleteMapping(store, id), "deleteMapping", id,
                          Len(store.mappings) - Len(deleteMapping(store, id).mappings))
    /\ UNCHANGED notStore

\* DELETE /api/entities/:id (routes.ts 140-143)
DeleteEntity ==
    /\ store.ops < MaxOps
    /\ \E id \in KnownIds :
          store' = Called(deleteEntity(store, id), "deleteEntity", id,
                          Len(store.mappings) - Len(deleteEntity(store, id).mappings))
    /\ UNCHANGED notStore

StoreNext ==
    \/ PostEntity
    \/ PostEntityPattern
    \/ PostEntityPatternRefused
    \/ PostEntityRespond
    \/ PostMapping
    \/ PostMappingRefused
    \/ DeleteMapping
    \/ DeleteEntity

StoreSpec == StoreInit /\ [][StoreNext]_vars

(***************************************************************************)
(* The access guards: requireAdmin (part_005) and requireMailboxAccess     *)
(* (part_006).  Both read their allowlists from the environment on every   *)
(* request.                                                                *)
(***************************************************************************)
\* String.prototype.split(",")
SplitComma(s) ==
    Let(s, LAMBDA v :
        LET cuts == {0} \cup {i \in DOMAIN v : v[i] = ","} \cup {Len(v) + 1}
            cut(k) == CHOOSE c \in cuts : Cardinality({d \in cuts : d < c}) = k
        IN [k \in 1..(Cardinality(cuts) - 1) |-> SubSeq(v, cut(k - 1) + 1, cut(k) - 1)])

\* String.prototype.trim
Trim(s) ==
    Let(s, LAMBDA v :
        Let({i \in DOMAIN v : v[i] \notin WhitespaceChars}, LAMBDA inked :
            IF inked = {} THEN <<>>
            ELSE SubSeq(v, CHOOSE i \in inked : \A j \in inked : i <= j,
                           CHOOSE i \in inked : \A j \in inked : j <= i)))

\* getAdminEmails (part_005 35-40; the same lines in part_006 97-100); env is
\* process.env.ADMIN_EMAILS, Null when unset
getAdminEmails(env) ==
    Let(SplitComma(OrElse(env, <<>>)), LAMBDA pieces :
        SelectSeq([k \in DOMAIN pieces |-> ToLowerCase(Trim(pieces[k]))],
                  LAMBDA e : e # <<>>))

\* getAdminIps (part_005 42-47)
getAdminIps(env) ==
    Let(SplitComma(OrElse(env, <<>>)), LAMBDA pieces :
        SelectSeq([k \in DOMAIN pieces |-> Trim(pieces[k])], LAMBDA ip : ip # <<>>))

AdminMail == <<"a","@","x",".","i","o">>
AdminMailUpper == <<"A","@","X",".","i","o">>
UserMail == <<"u","@","x",".","i","o">>

\* values of ADMIN_EMAILS
AdminEmailsEnvs ==
    {Null,
     Some(AdminMail),
     Some(<<" ">> \o AdminMailUpper \o <<" ",",","b","@","x",".","i","o">>),
     Some(<<",">>)}

VpnIp == <<"1","0",".","8",".","0",".","1">>
VpnIp2 == <<"1","0",".","8",".","0",".","2">>
OutsideIp == <<"1","0",".","9",".","0",".","3">>
UnknownIp == <<"u","n","k","n","o","w","n">>

\* values of ADMIN_ALLOWED_IPS
AdminIpsEnvs ==
    {Null, Some(VpnIp), Some(VpnIp \o <<","," ">> \o VpnIp2), Some(<<" ">>)}

\* req.session: absent, without a user, or with a user who has or lacks an email
Sessions ==
    {Null, Some([user |-> Null])}
        \cup {Some([user |-> Some([email |-> e])]) :
                 e \in {Null, Some(<<>>), Some(AdminMail), Some(AdminMailUpper), Some(UserMail)}}

\* req.session?.user
UserOf(session) == IF session = Null THEN Null ELSE session[1].user

\* (req.session?.user?.email ?? "").toLowerCase() (part_005 108)
UserEmailOf(session) ==
    IF UserOf(session) = Null \/ UserOf(session)[1].email = Null THEN <<>>
    ELSE ToLowerCase(UserOf(session)[1].email[1])

\* req.ip || req.socket.remoteAddress || "unknown" (part_005 107)
ClientIpOf(ip, remoteAddress) == OrElse(ip, OrElse(remoteAddress, UnknownIp))

AdminRequestAt(session, ip, remoteAddress, adminEmailsEnv, adminIpsEnv) ==
    [pc |-> "start", session |-> session, ip |-> ip, remoteAddress |-> remoteAddress,
     adminEmailsEnv |-> adminEmailsEnv, adminIpsEnv |-> adminIpsEnv,
     statusCode |-> 200, ended |-> FALSE, nextCalls |-> 0, audit |-> <<>>]

AdminGuardInit ==
    /\ guard \in {AdminRequestAt(session, ip, remoteAddress, e, i) :
                     session \in Sessions,
                     ip \in {Null, Some(VpnIp), Some(OutsideIp)},
                     remoteAddress \in {Null, Some(VpnIp2)},
                     e \in AdminEmailsEnvs, i \in AdminIpsEnvs}
    /\ body = [shapeOk |-> FALSE, items |-> <<>>]
    /\ clientClosed = FALSE
    /\ store = NoStore
    /\ twin = NoTwin
    /\ search = NoSearch
    /\ naming = NoNaming
    /\ pc = "request"
    /\ res = [statusCode |-> 200, headersSent |-> FALSE, ended |-> FALSE]
    /\ archiveState = "none"
    /\ archive = <<>>
    /\ fileCounters = <<>>
    /\ itemIndex = 0
    /\ attIndex = 0
    /\ entityFolder = <<>>
    /\ datePrefix = <<>>
    /\ baseFilename = <<>>
    /\ downloadedAttachments = <<>>
    /\ errorLog = {}

notGuard == <<body, pc, res, archiveState, archive, fileCounters, itemIndex,
              attIndex, entityFolder, datePrefix, baseFilename,
              downloadedAttachments, errorLog, clientClosed, twin, search, naming,
              store>>

\* where appendFileSync leaves the line: in the file, or on stderr when the
\* write throws (part_005 79-86)
AuditSinks == {"file", "stderr"}

\* auditLog (part_005 69-90)
auditLog(g, type, email, reason, sink) ==
    [g EXCEPT !.audit = Append(@, [type |-> type, email |-> email,
                                   ip |-> ClientIpOf(g.ip, g.remoteAddress),
                                   reason |-> reason, sink |-> sink])]

\* res.status(403).json(...)
Forbid(g) == [g EXCEPT !.statusCode = 403, !.ended = TRUE, !.pc = "done"]

\* a variant of IpAllowed that lets every address through
IpAllowedAnywhere(allowedIps, clientIp) == TRUE

\* the test of check 3 (part_005 128)
IpAllowed(allowedIps, clientIp) ==
    ~(Len(allowedIps) > 0 /\ clientIp \notin Range(allowedIps))

\* check 1 fails (part_005 114-118)
AdminDenyNotAuthenticated ==
    /\ guard.pc = "start"
    /\ UserOf(guard.session) = Null
    /\ \E sink \in AuditSinks :
          guard' = Forbid(auditLog(guard, "admin_denied", Null, "not_authenticated", sink))
    /\ UNCHANGED notGuard

\* check 2 fails (part_005 121-125)
AdminDenyNotAdminEmail ==
    /\ guard.pc = "start"
    /\ UserOf(guard.session) # Null
    /\ UserEmailOf(guard.session) \notin Range(getAdminEmails(guard.adminEmailsEnv))
    /\ \E sink \in AuditSinks :
          guard' = Forbid(auditLog(guard, "admin_denied",
                                   IF UserEmailOf(guard.session) = <<>> THEN Null
                                   ELSE Some(UserEmailOf(guard.session)),
                                   "not_admin_email", sink))
    /\ UNCHANGED notGuard

\* check 3 fails (part_005 128-132)
AdminDenyIp ==
    /\ guard.pc = "start"
    /\ UserOf(guard.session) # Null
    /\ UserEmailOf(guard.session) \in Range(getAdminEmails(guard.adminEmailsEnv))
    /\ ~IpAllowed(getAdminIps(guard.adminIpsEnv), ClientIpOf(guard.ip, guard.remoteAddress))
    /\ \E sink \in AuditSinks :
          guard' = Forbid(auditLog(guard, "admin_denied", Some(UserEmailOf(guard.session)),
                                   "ip_not_in_vpn_allowlist", sink))
    /\ UNCHANGED notGuard

\* every check passed (part_005 135-136)
AdminAllow ==
    /\ guard.pc = "start"
    /\ UserOf(guard.session) # Null
    /\ UserEmailOf(guard.session) \in Range(getAdminEmails(guard.adminEmailsEnv))
    /\ IpAllowed(getAdminIps(guard.adminIpsEnv), ClientIpOf(guard.ip, guard.remoteAddress))
    /\ \E sink \in AuditSinks :
          guard' = [auditLog(guard, "admin_access", Some(UserEmailOf(guard.session)),
                             "", sink)
                       EXCEPT !.nextCalls = @ + 1, !.pc = "done"]
    /\ UNCHANGED notGuard

AdminGuardNext ==
    \/ AdminDenyNotAuthenticated
    \/ AdminDenyNotAdminEmail
    \/ AdminDenyIp
    \/ AdminAllow

AdminGuardSpec == AdminGuardInit /\ [][AdminGuardNext]_vars

(***************************************************************************)
(* requireMailboxAccess with the getTargetMailboxes of its documented use  *)
(* (part_006 119-123): the requested account ids are mapped through        *)
(* getMailboxEmailForAccount.                                              *)
(***************************************************************************)
MaxAccounts == 2

Box1 == <<"b","1","@","x",".","i","o">>
Box2 == <<"b","2","@","x",".","i","o">>

\* process.env.GMAIL_ACCOUNT_<i>_EMAIL: account 3 has none
AccountIndexes == {1, 2, 3}
AccountEmailEnv(i) ==
    IF i = 1 THEN Some(<<"B","1","@","x",".","i","o">>)
    ELSE IF i = 2 THEN Some(Box2)
    ELSE Null

\* getMailboxEmailForAccount (part_006 77-81)
getMailboxEmailForAccount(accountIndex) ==
    ToLowerCase(OrElse(AccountEmailEnv(accountIndex), <<>>))

\* what loadMailboxGrants returns (part_006 40-70): nothing when the file
\* cannot be read, else the boxes of each user
GrantsPool ==
    {<<>>} \cup {[u \in {UserMail} |-> boxes] : boxes \in {<<Box1>>, <<Box1, Box2>>}}

\* canAccessMailbox (part_006 89-113)
canAccessMailbox(userEmail, targetMailboxEmail, adminEmailsEnv, grants) ==
    Let(ToLowerCase(userEmail), LAMBDA normalized :
    Let(ToLowerCase(targetMailboxEmail), LAMBDA targetNorm :
        IF normalized \in Range(getAdminEmails(adminEmailsEnv)) THEN TRUE
        ELSE IF targetNorm = <<>> THEN FALSE
        ELSE targetNorm \in Range(IF normalized \in DOMAIN grants
                                  THEN grants[normalized] ELSE <<>>)))

MailboxRequestAt(user, accountIds, adminEmailsEnv, grants) ==
    [pc |-> "start", user |-> user, accountIds |-> accountIds,
     adminEmailsEnv |-> adminEmailsEnv, grants |-> grants,
     targets |-> <<>>, index |-> 0,
     statusCode |-> 200, ended |-> FALSE, nextCalls |-> 0]

MailboxGuardInit ==
    /\ guard \in {MailboxRequestAt(user, accountIds, e, grants) :
                     user \in {Null, Some(UserMail), Some(AdminMail)},
                     accountIds \in UNION {[1..n -> AccountIndexes] : n \in 0..MaxAccounts},
                     e \in {Null, Some(AdminMail)},
                     grants \in GrantsPool}
    /\ body = [shapeOk |-> FALSE, items |-> <<>>]
    /\ clientClosed = FALSE
    /\ store = NoStore
    /\ twin = NoTwin
    /\ search = NoSearch
    /\ naming = NoNaming
    /\ pc = "request"
    /\ res = [statusCode |-> 200, headersSent |-> FALSE, ended |-> FALSE]
    /\ archiveState = "none"
    /\ archive = <<>>
    /\ fileCounters = <<>>
    /\ itemIndex = 0
    /\ attIndex = 0
    /\ entityFolder = <<>>
    /\ datePrefix = <<>>
    /\ baseFilename = <<>>
    /\ downloadedAttachments = <<>>
    /\ errorLog = {}

\* no user in the session (part_006 132-136)
MailboxUnauthorized ==
    /\ guard.pc = "start"
    /\ guard.user = Null
    /\ guard' = [guard EXCEPT !.statusCode = 401, !.ended = TRUE, !.pc = "done"]
    /\ UNCHANGED notGuard

\* getTargetMailboxes(req).filter(Boolean) (part_006 138)
MailboxTargets ==
    /\ guard.pc = "start"
    /\ guard.user # Null
    /\ guard' = [guard EXCEPT
                    !.targets = SelectSeq([k \in DOMAIN guard.accountIds |->
                                              getMailboxEmailForAccount(guard.accountIds[k])],
                                          LAMBDA t : t # <<>>),
                    !.index = 1,
                    !.pc = "loop"]
    /\ UNCHANGED notGuard

\* the user may read the target at hand
TargetGranted ==
    canAccessMailbox(guard.user[1], guard.targets[guard.index],
                     guard.adminEmailsEnv, guard.grants)

\* a turn of the loop that goes on (part_006 140-150)
MailboxPass ==
    /\ guard.pc = "loop"
    /\ guard.index <= Len(guard.targets)
    /\ TargetGranted
    /\ guard' = [guard EXCEPT !.index = @ + 1]
    /\ UNCHANGED notGuard

\* a turn of the loop that denies (part_006 141-148)
MailboxDeny ==
    /\ guard.pc = "loop"
    /\ guard.index <= Len(guard.targets)
    /\ ~TargetGranted
    /\ guard' = [guard EXCEPT !.statusCode = 403, !.ended = TRUE, !.pc = "done"]
    /\ UNCHANGED notGuard

\* the loop is over (part_006 152)
MailboxNext ==
    /\ guard.pc = "loop"
    /\ guard.index > Len(guard.targets)
    /\ guard' = [guard EXCEPT !.nextCalls = @ + 1, !.pc = "done"]
    /\ UNCHANGED notGuard

MailboxGuardNext ==
    \/ MailboxUnauthorized
    \/ MailboxTargets
    \/ MailboxPass
    \/ MailboxDeny
    \/ MailboxNext

MailboxGuardSpec == MailboxGuardInit /\ [][MailboxGuardNext]_vars

(***************************************************************************)
(* Properties.                                                             *)
(***************************************************************************)
\* the endings the documentation gives the combined files
DocPdfEnding == <<"_","C","O","M","B","I","N","E","D",".","p","d","f">>
DocJsonEnding == <<"_","C","O","M","B","I","N","E","D",".","j","s","o","n">>

\* an entry path is <folder>/<file>; the folder holds no '/'
SlashAt(name) == CHOOSE p \in DOMAIN name : name[p] = "/" /\ \A q \in 1..(p - 1) : name[q] # "/"
FolderPart(name) == SubSeq(name, 1, SlashAt(name) - 1)
FilePart(name) == SubSeq(name, SlashAt(name) + 1, Len(name))

\* s ends with ending, letter case aside
EndsWithAnyCase(s, ending) == EndsWith(ToLowerCase(s), ToLowerCase(ending))
DropEnding(s, ending) == SubSeq(s, 1, Len(s) - Len(ending))

\* the entries item i appended, in order
EntriesOf(i) == SelectSeq(archive, LAMBDA e : e.item = i)
ItemWritten(i) == \E p \in DOMAIN archive : archive[p].item = i

\* the fetch of attachment k of item i threw
FetchFailed(i, k) ==
    \E l \in errorLog : l.what = "attachment" /\ l.item = i /\ l.att = k

\* how many items up to the i-th derive the key of the i-th
OccurrenceOf(i) ==
    Let(FileKeyOf(items[i]), LAMBDA key :
        Cardinality({j \in 1..i : j = i \/ FileKeyOf(items[j]) = key}))

\* C1: every raw attachment entry has, in its entity folder, a combined PDF
\* and a combined JSON of the same email whose names are the raw entry's name
\* without its extension followed by _COMBINED.pdf and _COMBINED.json (the
\* letter case of the ending is not held against the code here)
C1_TripletSharesStem ==
    \A p \in DOMAIN archive :
        archive[p].kind = "raw" =>
            LET stem == StripExtension(FilePart(archive[p].name))
                Pair(kind, ending) ==
                    \E q \in DOMAIN archive :
                        /\ archive[q].kind = kind
                        /\ archive[q].item = archive[p].item
                        /\ FolderPart(archive[q].name) = FolderPart(archive[p].name)
                        /\ EndsWithAnyCase(FilePart(archive[q].name), ending)
                        /\ DropEnding(FilePart(archive[q].name), ending) = stem
            IN Pair("pdf", DocPdfEnding) /\ Pair("json", DocJsonEnding)

\* the suffix the n-th unit of a key carries according to the documentation
DocSuffix(n) == IF n = 1 THEN <<>> ELSE <<"_">> \o NatToString(n)

\* C2: the combined files of the n-th unit that derives an (entityFolder,
\* baseName) key are named after the base name with no suffix for n = 1 and
\* with _n for n >= 2, keys being counted per entity folder
C2_NthUnitCarriesN ==
    \A p \in DOMAIN archive :
        archive[p].kind \in {"pdf", "json"} =>
            LET i == archive[p].item
                ending == IF archive[p].kind = "pdf" THEN DocPdfEnding ELSE DocJsonEnding
            IN /\ EndsWithAnyCase(FilePart(archive[p].name), ending)
               /\ DropEnding(FilePart(archive[p].name), ending)
                      = PlainBaseOf(items[i]) \o DocSuffix(OccurrenceOf(i))

\* the name, kind and origin of the entries item i appends when every fetch
\* succeeds, with the bytes of the raw attachments: a function of the request
\* alone
BaseWithoutFailure(i) ==
    Let(OccurrenceOf(i), LAMBDA n :
        PlainBaseOf(items[i])
        \o (IF n = 1 THEN <<>> ELSE <<"_">> \o NatToString(n - 1)))
EntriesWithoutFailure(i) ==
    Let(EntityFolderOf(items[i]) \o <<"/">>, LAMBDA folder :
    Let(BaseWithoutFailure(i), LAMBDA base :
    Let(formatDatePrefix(items[i].date), LAMBDA datePfx :
        <<[name |-> folder \o base \o CombinedPdfSuffix,
           kind |-> "pdf", att |-> 0, bytes |-> "composed"],
          [name |-> folder \o base \o CombinedJsonSuffix,
           kind |-> "json", att |-> 0, bytes |-> "composed"]>>
        \o [k \in DOMAIN items[i].attachments |->
               [name |-> folder \o RawFileName(datePfx, Downloaded(items[i], k)),
                kind |-> "raw", att |-> k, bytes |-> items[i].attachments[k].id]])))

\* what the archive holds of item i, in the same form
EntriesWritten(i) ==
    LET mine == EntriesOf(i)
    IN [p \in DOMAIN mine |->
           [name |-> mine[p].name, kind |-> mine[p].kind, att |-> mine[p].att,
            bytes |-> IF mine[p].kind = "raw" THEN mine[p].content.id ELSE "composed"]]

\* the handler stopped without finalizing, for another reason than pdfkit
\* failing or the request being refused
StoppedEarly ==
    /\ pc = "done"
    /\ archiveState # "finalized"
    /\ res.statusCode # 400
    /\ ~\E l \in errorLog : l.what = "bundle" /\ l.err = "pdfkit"

PdfkitRejected == \E l \in errorLog : l.what = "bundle" /\ l.err = "pdfkit"

\* C4: whatever fetches and PDF splices fail, a build that was started (and
\* in which pdfkit itself did not fail) reaches archive.finalize(), and it
\* does so only after every item of the list was processed
C4_AlwaysFinalizes ==
    /\ <>(archiveState = "finalized" \/ res.statusCode = 400 \/ PdfkitRejected)
    /\ [](archiveState = "finalized" => \A i \in DOMAIN items : ItemWritten(i))

\* C4 witness: the archive was finalized after a fetch threw and after a PDF
\* splice failed
C4_Witness ==
    /\ archiveState = "finalized"
    /\ \E l \in errorLog : l.what = "attachment"
    /\ \E l \in errorLog : l.what = "preview"

\* the number of entries of one kind item i appended
CountOf(i, kind) == Len(SelectSeq(EntriesOf(i), LAMBDA e : e.kind = kind))

\* C5: an email with k >= 1 attachments that were all fetched has exactly 3k
\* entries: k raw files, k combined PDFs and k combined JSON records
C5_ThreeEntriesPerAttachment ==
    \A i \in DOMAIN items :
        LET k == Len(items[i].attachments)
        IN (ItemWritten(i) /\ k >= 1 /\ \A a \in 1..k : ~FetchFailed(i, a)) =>
               /\ Len(EntriesOf(i)) = 3 * k
               /\ CountOf(i, "raw") = k
               /\ CountOf(i, "pdf") = k
               /\ CountOf(i, "json") = k

\* C6: an email without attachments has exactly two entries, one named
\* <base>_COMBINED.pdf and one named <base>_COMBINED.json with the same base,
\* and its JSON record has no linkedAttachmentFile field
C6_AttachmentLessPair ==
    \A i \in DOMAIN items :
        (ItemWritten(i) /\ Len(items[i].attachments) = 0) =>
            /\ Len(EntriesOf(i)) = 2
            /\ CountOf(i, "raw") = 0
            /\ \E p, q \in DOMAIN EntriesOf(i) :
                  LET pdf == EntriesOf(i)[p]
                      json == EntriesOf(i)[q]
                  IN /\ pdf.kind = "pdf" /\ json.kind = "json"
                     /\ EndsWith(pdf.name, DocPdfEnding)
                     /\ EndsWith(json.name, DocJsonEnding)
                     /\ DropEnding(pdf.name, DocPdfEnding) = DropEnding(json.name, DocJsonEnding)
                     /\ "linkedAttachmentFile" \notin DOMAIN json.content

\* the stem the documentation gives the files of attachment k of item i
DocStem(i, k) ==
    LET name == CleanAttachmentName(items[i].attachments[k].filename, items[i].subject)
    IN formatDatePrefix(items[i].date) \o <<"_">> \o SubjectSlugOf(items[i]) \o <<"_">>
       \o Substring(sanitizeFolderName(StripExtension(name)), AttSlugMaxLen)

HasEntry(name) == \E p \in DOMAIN archive : archive[p].name = name
HasEntryAnyCase(name) ==
    \E p \in DOMAIN archive : ToLowerCase(archive[p].name) = ToLowerCase(name)

\* C7: for an email with a parsable date that is the first to derive its
\* names, every fetched attachment A.ext is written as
\* <folder>/<date>_<subject slug>_<slug of A>.ext with its combined files
\* under the same stem, and an email without attachments as
\* <folder>/<date>_<subject slug>_COMBINED.pdf and .json (the letter case of
\* the endings is not held against the code here)
C7_DocumentedPaths ==
    \A i \in DOMAIN items :
        (ItemWritten(i) /\ ParseDate(items[i].date).valid /\ OccurrenceOf(i) = 1) =>
            LET folder == EntityFolderOf(items[i]) \o <<"/">>
            IN /\ Len(items[i].attachments) = 0 =>
                     /\ HasEntryAnyCase(folder \o PlainBaseOf(items[i]) \o DocPdfEnding)
                     /\ HasEntryAnyCase(folder \o PlainBaseOf(items[i]) \o DocJsonEnding)
               /\ \A k \in DOMAIN items[i].attachments :
                     ~FetchFailed(i, k) =>
                         /\ HasEntry(folder \o DocStem(i, k)
                                     \o ExtensionOf(items[i].attachments[k].filename))
                         /\ HasEntryAnyCase(folder \o DocStem(i, k) \o DocPdfEnding)
                         /\ HasEntryAnyCase(folder \o DocStem(i, k) \o DocJsonEnding)

\* C8: the JSON record of an email with fetched attachments has a
\* linkedAttachmentFile field naming a raw entry of the same folder
C8_LinkedAttachmentFile ==
    \A p \in DOMAIN archive :
        (archive[p].kind = "json" /\ CountOf(archive[p].item, "raw") > 0) =>
            /\ "linkedAttachmentFile" \in DOMAIN archive[p].content
            /\ \E q \in DOMAIN archive :
                  /\ archive[q].kind = "raw"
                  /\ FolderPart(archive[q].name) = FolderPart(archive[p].name)
                  /\ FilePart(archive[q].name) = archive[p].content.linkedAttachmentFile

\* the attachment listing of the metadata page of a combined PDF
ListingOf(pdfEntry) == pdfEntry.content.pages[1].listing

\* C9: the attachment listing of every JSON record and of every metadata page
\* has one row per attachment of the email as it was given, in that order,
\* also for an attachment whose fetch threw
C9_ListingKeepsEveryAttachment ==
    \A p \in DOMAIN archive :
        LET given == items[archive[p].item].attachments
        IN /\ archive[p].kind = "json" =>
                 /\ Len(archive[p].content.attachments) = Len(given)
                 /\ \A k \in DOMAIN given :
                       archive[p].content.attachments[k].mimeType = given[k].mimeType
           /\ archive[p].kind = "pdf" => Len(ListingOf(archive[p])) = Len(given)

Refused == ~body.shapeOk \/ Len(items) = 0

\* C11: a request with an empty item list or a malformed body is answered
\* with one 400 response and nothing else happens: no archive is created, no
\* entry appended, no counter set, no attachment fetched; and only such a
\* request is answered 400
C11_RejectedUpFront ==
    /\ Refused =>
          /\ archiveState = "none"
          /\ archive = <<>>
          /\ fileCounters = <<>>
          /\ itemIndex = 0 /\ attIndex = 0
          /\ downloadedAttachments = <<>>
          /\ errorLog = {}
          /\ pc \in {"request", "done"}
          /\ pc = "request" => ~res.headersSent
          /\ pc = "done" => res = SendError(400)
    /\ res.statusCode = 400 => Refused

\* C11 witness: a well-formed request with an empty item list was answered
C11_Witness ==
    /\ pc = "done"
    /\ body.shapeOk /\ Len(items) = 0
    /\ res.statusCode = 400 /\ res.ended

\* C12: no two entries of one archive have the same full path
C12_NoTwoEntriesSharePath ==
    \A p, q \in DOMAIN archive :
        p # q => archive[p].name # archive[q].name

PathSeparators == {"/", "\\"}

\* C13: every entry path is <EntityFolder>/<fileName>: one path separator,
\* and neither segment is empty, "." or ".."
C13_TwoSegmentPaths ==
    \A p \in DOMAIN archive :
        LET name == archive[p].name
        IN /\ Cardinality({i \in DOMAIN name : name[i] \in PathSeparators}) = 1
           /\ FolderPart(name) \notin {<<>>, <<".">>, DotDot}
           /\ FilePart(name) \notin {<<>>, <<".">>, DotDot}

\* the attachments whose fetched bytes the handler holds: the buffers that
\* downloadedAttachments references
\* both builds of the request ran to the end of the handler
BothBuilt == archiveState = "finalized" /\ twin.pc = "done" /\ twin.finalized

\* C14: two builds given the same items and the same fetch outcomes produce
\* the same ordered list of entry paths, whichever process serves them and
\* however their steps interleave.
C14_PathsReproducible == BothBuilt => PathsOf(archive) = twin.paths

\* the part of C14 that is about the counter table: two builds in processes
\* of one time zone agree on every path
SameZonePathsAgree == (BothBuilt /\ twin.zone = "UTC") => PathsOf(archive) = twin.paths

\* the positions, in the order storage returned the mappings, of those that
\* belong to a selected entity and match the sender address
Applicable ==
    {i \in DOMAIN search.allMappings :
        /\ search.allMappings[i].entityId \in search.entityIds
        /\ PatternMatches(search.fromAddress, search.allMappings[i].pattern)}

FirstApplicable == CHOOSE i \in Applicable : \A j \in Applicable : i <= j

\* C17: the enriched result carries the entity of the first mapping, in the
\* order the mappings were supplied and among the selected entities, whose
\* pattern matches the sender address, and null when none matches.
C17_FirstMatchWins ==
    search.pc = "done" =>
        IF Applicable = {}
        THEN search.matchedEntityId = Null /\ search.matchedEntityName = Null
        ELSE /\ search.matchedEntityId = Some(search.allMappings[FirstApplicable].entityId)
             /\ search.matchedEntityName =
                    Some(entityMap[search.allMappings[FirstApplicable].entityId])

\* two mappings of different entities apply and the earlier one was taken
C17_Witness ==
    /\ search.pc = "done"
    /\ \E i, j \in Applicable :
          /\ i < j
          /\ search.allMappings[i].entityId # search.allMappings[j].entityId
          /\ search.matchedEntityId = Some(search.allMappings[i].entityId)

\* the match the specification describes: a wildcard pattern against the end
\* of the address and a literal pattern against the whole address, both
\* without regard to letter case
MatchesAnyCase(address, p) ==
    IF StartsWith(p, <<"*", "@">>)
    THEN LET domain == ToLowerCase(SubSeq(p, 3, Len(p)))
         IN  \/ EndsWith(ToLowerCase(address), <<"@">> \o domain)
             \/ EndsWith(ToLowerCase(address), <<".">> \o domain)
    ELSE ToLowerCase(address) = ToLowerCase(p)

\* C18: a result is matched exactly when some selected mapping's pattern
\* matches its sender address without regard to letter case, a wildcard
\* *@domain on the ending @domain or .domain, a literal on the whole address.
C18_MatchIgnoresCase ==
    search.pc = "done" =>
        (search.matchedEntityId # Null <=>
            \E i \in DOMAIN search.allMappings :
                /\ search.allMappings[i].entityId \in search.entityIds
                /\ MatchesAnyCase(search.fromAddress, search.allMappings[i].pattern))

\* C19: sanitizing a sanitized name changes nothing, whatever the name and
\* the length it is cut to.
C19_SanitizeIdempotent == naming.pc = "twice" => naming.twice = naming.once

\* what is left of a name once the forbidden characters are stripped, the
\* whitespace and the underscores are collapsed and the ends are trimmed
LeftOf(raw) ==
    TrimUnderscore(CollapseUnderscores(WhitespaceToUnderscore(StripForbidden(raw))))

\* C20: no segment is empty, and a name of which sanitizing leaves nothing
\* gives the folder "Unknown" as an entity name and the slug "No_Subject"
\* as a subject.
C20_PlaceholderOfKind ==
    naming.pc = "item" =>
        /\ naming.entityFolder # <<>>
        /\ naming.subjectSlug # <<>>
        /\ LeftOf(naming.raw) = <<>> =>
               /\ naming.entityFolder = UnknownName
               /\ naming.subjectSlug = NoSubjectName

BuffersHeld =={downloadedAttachments[p].buffer.id : p \in DOMAIN downloadedAttachments}

\* C15: at every point of a build the handler holds the fetched bytes of at
\* most one attachment
C15_OneAttachmentHeld == Cardinality(BuffersHeld) <= 1

\* a step of the fetch loop: downloadAttachment was called for one attachment
FetchStep == pc = "fetch" /\ attIndex' = attIndex + 1

\* C16: once the peer has closed the connection, the build fetches no further
\* attachment and appends no further entry
C16_CloseStopsBuild ==
    [][clientClosed => (~FetchStep /\ archive' = archive)]_vars

\* the literal of formatDatePrefix's catch branch (routes.ts 470)
UnknownDate == <<"u","n","k","n","o","w","n","-","d","a","t","e">>

\* C21: every entry of an item whose date cannot be parsed is named with the
\* fixed prefix unknown-date.
C21_UnparsableDateSentinel ==
    \A p \in DOMAIN archive :
        ~ParseDate(items[archive[p].item].date).valid =>
            StartsWith(FilePart(archive[p].name), UnknownDate \o <<"_">>)

\* C22: for a generic file name and a non-empty subject the server and the
\* client give the attachment the same name, the sanitized subject followed
\* by the extension of the file name; in every other case both leave the file
\* name as it is.
C22_CleanNameAgrees ==
    (naming.pc = "names" /\ naming.server # Null /\ naming.client # Null) =>
        IF isGenericFilename(naming.filename) /\ naming.subject # <<>>
        THEN /\ naming.server = naming.client
             /\ EndsWith(naming.server[1], ExtensionOf(naming.filename))
        ELSE /\ naming.server = Some(naming.filename)
             /\ naming.client = Some(naming.filename)

\* the pages of the combined PDF that stands beside the raw entry at p
UnitPagesOf(p) ==
    archive[CHOOSE q \in DOMAIN archive :
                archive[q].kind = "pdf" /\ archive[q].item = archive[p].item].content.pages

\* the attachment, as the request gives it, the raw entry at p holds
SourceOf(p) == items[archive[p].item].attachments[archive[p].att]

PreviewKinds == {"image", "pdf"}

\* C23: a combined PDF is the metadata page, the body page and then at most
\* one preview page; beside a raw attachment, that page previews this very
\* attachment, and there is none when its MIME type is neither an allowed
\* image nor application/pdf.
C23_OneTargetedPreview ==
    \A p \in DOMAIN archive :
        /\ archive[p].kind = "pdf" =>
              LET pages == archive[p].content.pages
              IN /\ Len(pages) \in 2..3
                 /\ pages[1].kind = "metadata"
                 /\ pages[2].kind = "body"
                 /\ \A k \in 3..Len(pages) : pages[k].kind \in PreviewKinds
        /\ archive[p].kind = "raw" =>
              Let(UnitPagesOf(p), LAMBDA pages :
                  /\ ~(IsImageMime(SourceOf(p).mimeType) \/ IsPdfMime(SourceOf(p).mimeType))
                        => Len(pages) = 2
                  /\ \A k \in 3..Len(pages) :
                        pages[k].filename =
                            CleanAttachmentName(SourceOf(p).filename,
                                                items[archive[p].item].subject))

\* pdf-lib could not embed the preview of attachment k of item i
PreviewFailed(i, k) ==
    \E l \in errorLog : l.what = "preview" /\ l.item = i /\ l.att = k

\* pdf-lib could not load the base document of item i or save the result
MergeFailed(i) == \E l \in errorLog : l.what = "merge" /\ l.item = i

\* the raw entries of item i whose attachment is a PDF
RawPdfsOf(i) ==
    SelectSeq(archive, LAMBDA e :
        e.kind = "raw" /\ e.item = i /\ IsPdfMime(items[i].attachments[e.att].mimeType))

\* the raw entries of item i whose attachment is an image
RawImagesOf(i) ==
    SelectSeq(archive, LAMBDA e :
        e.kind = "raw" /\ e.item = i /\ IsImageMime(items[i].attachments[e.att].mimeType))

\* C24: a PDF attachment that cannot be loaded or copied costs the combined
\* PDF its own preview page and nothing else: the document is produced with
\* the metadata page, the body page, every image page and, in order, the
\* captioned first page of every other PDF attachment that was fetched.
C24_SourceFailureIsolated ==
    \A p \in DOMAIN archive :
        (archive[p].kind = "pdf" /\ ~MergeFailed(archive[p].item)) =>
            Let(archive[p].item, LAMBDA i :
            Let(archive[p].content.pages, LAMBDA pages :
            Let(SelectSeq(RawPdfsOf(i), LAMBDA e : ~PreviewFailed(i, e.att)), LAMBDA sound :
            Let(SelectSeq(pages, LAMBDA g : g.kind = "pdf" /\ g.caption # <<>>), LAMBDA captioned :
                /\ pages[1].kind = "metadata"
                /\ pages[2].kind = "body"
                /\ Len(SelectSeq(pages, LAMBDA g : g.kind = "image")) = Len(RawImagesOf(i))
                /\ Len(captioned) = Len(sound)
                /\ \A k \in DOMAIN sound :
                      captioned[k].caption[1].source = sound[k].content.id
                /\ \A k \in DOMAIN pages :
                      (pages[k].kind = "pdf" /\ pages[k].caption = <<>>) =>
                          \E e \in Range(RawPdfsOf(i)) :
                              /\ PreviewFailed(i, e.att)
                              /\ pages[k].filename = items[i].attachments[e.att].filename))))

\* C24 witness: of two PDF attachments of one email the first could not be
\* loaded and has no page, the second has its captioned page
C24_Witness ==
    /\ archiveState = "finalized"
    /\ \E p \in DOMAIN archive :
          /\ archive[p].kind = "pdf"
          /\ Len(RawPdfsOf(archive[p].item)) = 2
          /\ PreviewFailed(archive[p].item, RawPdfsOf(archive[p].item)[1].att)
          /\ LET spliced == SelectSeq(archive[p].content.pages, LAMBDA g : g.kind = "pdf")
             IN /\ Len(spliced) = 1
                /\ spliced[1].caption # <<>>
                /\ spliced[1].caption[1].source = RawPdfsOf(archive[p].item)[2].content.id

\* C29: every spliced first page in a combined PDF carries its caption.
C29_SplicedPageHasCaption ==
    \A p \in DOMAIN archive :
        archive[p].kind = "pdf" =>
            \A k \in DOMAIN archive[p].content.pages :
                archive[p].content.pages[k].kind = "pdf" =>
                    archive[p].content.pages[k].caption # <<>>

\* the step is a call of deleteEntity
DeleteEntityStep == store'.ops = store.ops + 1 /\ store'.last.op = "deleteEntity"

\* C25: deleteEntity(id) removes the entity id and every mapping whose
\* entityId is id, keeps every other entity and every mapping of other
\* entities, and leaves getMappings(id) empty.
C25_DeleteEntityCascades ==
    [][DeleteEntityStep =>
          LET id == store'.last.id
          IN /\ Range(store'.entities) = Range(store.entities) \ {id}
             /\ Range(store'.mappings) = {m \in Range(store.mappings) : m.entityId # id}
             /\ Len(store'.mappings) = Cardinality(Range(store'.mappings))
             /\ getMappings(store', id) = <<>>]_vars

\* C25 witness: the last call deleted an entity with its mappings, and a
\* mapping of another entity is still stored
C25_Witness ==
    /\ store.last.op = "deleteEntity"
    /\ store.last.gone > 0
    /\ \E m \in Range(store.mappings) :
          m.entityId # store.last.id /\ m.entityId \in Range(store.entities)

\* C30: every stored mapping belongs to a stored entity.
C30_NoOrphanMapping ==
    \A m \in Range(store.mappings) : m.entityId \in Range(store.entities)

\* the part of C30 the tables enforce
NoOrphanInDatabase == store.kind = "database" => C30_NoOrphanMapping

\* the session has a user whose lowercased email is on the admin list, and
\* the list of admin addresses is empty or holds the address of the request
AdminPermitted ==
    /\ UserOf(guard.session) # Null
    /\ \E k \in DOMAIN getAdminEmails(guard.adminEmailsEnv) :
          getAdminEmails(guard.adminEmailsEnv)[k] = UserEmailOf(guard.session)
    /\ \/ getAdminIps(guard.adminIpsEnv) = <<>>
       \/ \E k \in DOMAIN getAdminIps(guard.adminIpsEnv) :
             getAdminIps(guard.adminIpsEnv)[k] = ClientIpOf(guard.ip, guard.remoteAddress)

\* C26: requireAdmin calls next() exactly when the request is permitted,
\* answers 403 and does not call next() otherwise, and writes exactly one
\* audit event either way.
C26_AdminGuard ==
    /\ guard.pc = "start" => (guard.audit = <<>> /\ guard.nextCalls = 0 /\ ~guard.ended)
    /\ guard.pc = "done" =>
          /\ Len(guard.audit) = 1
          /\ IF AdminPermitted
             THEN /\ guard.nextCalls = 1
                  /\ ~guard.ended
                  /\ guard.audit[1].type = "admin_access"
             ELSE /\ guard.nextCalls = 0
                  /\ guard.ended
                  /\ guard.statusCode = 403
                  /\ guard.audit[1].type = "admin_denied"

\* C26 witness: an admin whose session email differs in case from the
\* allowlist entry was let through an address allowlist that is set
C26_Witness ==
    /\ guard.pc = "done"
    /\ guard.nextCalls = 1
    /\ guard.session = Some([user |-> Some([email |-> Some(AdminMailUpper)])])
    /\ guard.adminIpsEnv = Some(VpnIp \o <<",", " ">> \o VpnIp2)
    /\ guard.ip = Null

\* C27: requireMailboxAccess calls next() only when the user may read the
\* mailbox of every requested account; an account without a configured
\* mailbox is one a user who is no admin may not read.
C27_EveryAccountChecked ==
    (guard.pc = "done" /\ guard.nextCalls > 0) =>
        \A k \in DOMAIN guard.accountIds :
            canAccessMailbox(guard.user[1], getMailboxEmailForAccount(guard.accountIds[k]),
                             guard.adminEmailsEnv, guard.grants)

\* the part of C27 that holds: next() is called only when the user may read
\* every configured mailbox among the requested ones
ConfiguredAccountsChecked ==
    (guard.pc = "done" /\ guard.nextCalls > 0) =>
        \A k \in DOMAIN guard.accountIds :
            getMailboxEmailForAccount(guard.accountIds[k]) # <<>> =>
                canAccessMailbox(guard.user[1],
                                 getMailboxEmailForAccount(guard.accountIds[k]),
                                 guard.adminEmailsEnv, guard.grants)


\* C28: every bundle request ends with a terminated response: once the
\* handler has returned, the response was ended, either by an error answer
\* sent before any byte of the archive or by the finalized archive; this
\* holds as well when composing a combined PDF rejects after earlier entries
\* were streamed.
C28_ResponseTerminated ==
    pc = "done" =>
        /\ res.ended
        /\ archiveState = "finalized" \/ res.statusCode \in {400, 500}

\* the part of C28 that holds: a handler that returned without ending the
\* response is one in which pdfkit rejected after the headers had gone out
OpenOnlyAfterLateReject ==
    (pc = "done" /\ ~res.ended) =>
        /\ PdfkitRejected
        /\ res.headersSent
        /\ archiveState = "open"

====
